---- MODULE Spec2Model ----
(***************************************************************************)
(* Model of the server lifecycle and control core of the Minecraft server  *)
(* manager: the RCON session (app/core/rcon/client.js), the readiness      *)
(* checker (core/server/readiness) and the IPC handlers that drive them    *)
(* (app/electron/ipc-handlers.js).                                         *)
(*                                                                         *)
(* JavaScript runs one handler at a time up to its next await: every       *)
(* action below is one such run-to-suspension step, and every await of an  *)
(* I/O result (Rcon.connect, client.send, client.end, a probe, a sleep) is *)
(* a point where other actions interleave.                                 *)
(***************************************************************************)
EXTENDS Integers, Sequences, FiniteSets, TLC

\* ------------------------------------------------------------ bounds
MaxCmds == 2          \* send() calls per behaviour
MaxConn == 4          \* connections Rcon.connect opens per behaviour
MaxExt == 1           \* concurrent external connectWithRetry() callers
MaxExtAttempts == 2   \* largest maxAttempts an external caller passes
MaxWire == 2          \* requests outstanding on one connection

MaxTimeout == 2       \* largest timeoutMs passed to waitForReady, in clock ticks
MaxPoll == 2          \* largest pollIntervalMs, in clock ticks
MaxProbeDelay == 1    \* longest time one probe takes, in clock ticks

MaxFollow == 2        \* concurrent startFollowing() calls
MaxStreams == 2       \* log streams open at once
MaxPollCalls == 2     \* concurrent startPolling() calls
MaxTimers == 2        \* interval timers running at once
MaxInflight == 2      \* timer ticks whose getStats() is in flight at once
MaxListeners == 2     \* 'stats' listeners attached at a time
MaxLines == 3         \* lines that the container writes while it is followed
MaxCapacity == 2      \* the sizes that setBufferSize is called with
MaxText == 4          \* bytes of an unframed stream
MaxFrames == 2        \* frames of a multiplexed stream
MaxPayload == 2       \* payload bytes of a frame
MaxClockSteps == 3    \* steps of the clock
MaxAwaiting == 1      \* console:command handlers awaiting ensureRcon() at once

MaxBackupCalls == 2   \* concurrent createBackup() and restoreBackup() calls
MaxNames == 3         \* archives on the backups volume at once
MaxDate == 3          \* distinct dates that file names carry
MaxArchiveMB == 2     \* largest archive, in MB
MaxCountOption == 2   \* largest options.maxBackups
MaxSizeOption == 3    \* largest options.maxSizeMB

MaxNameLen == 3       \* longest player name passed to RconCommands

MaxUsage == 3         \* largest cpu_usage.total_usage, in units of 100
MaxSystem == 10       \* largest system_cpu_usage, in units of 100
MaxCpus == 4          \* largest online_cpus
MaxPerCpu == 2        \* longest percpu_usage
MaxHelperCalls == 2   \* _runHelper calls that overlap
MaxWorkers == 3       \* worker containers that Docker holds at once
MaxLogCalls == 2      \* log() calls that overlap
MaxEvents == 3        \* events passed to log()
MaxEntries == 2       \* options.maxEntries

\* ------------------------------------------------- program constants
AutoMaxAttempts == 5  \* _autoReconnect: connectWithRetry({maxAttempts: 5})
DefaultBufferSize == 500  \* this.maxBufferSize = 500
HeaderLength == 8  \* the header of a frame of docker's multiplexed stream
Replacement == 65533  \* U+FFFD, what toString('utf8') puts for bytes that are no character
WindowMs == 1000  \* now - t < 1000
MaxPerSecond == 5  \* createRateLimiter(5)
DefaultMaxBackups == 10  \* options.maxBackups || 10
DefaultMaxSizeMB == 5000  \* options.maxSizeMB || 5000

Cmds == 1..MaxCmds
ConnIds == 1..MaxConn
AutoTask == 0
TaskIds == 0..MaxExt

VARIABLES
  \* RconClient fields
  connected,     \* this.connected
  reconnecting,  \* this.reconnecting
  processing,    \* this.processing
  client,        \* this.client: 0 is null, else the connection it holds
  queue,         \* this.queue: command ids in submission order
  heartbeat,     \* this.heartbeatInterval !== null
  \* the rcon-client connections this session has opened
  conns,         \* connections that are open (each has the 'end' handler of connect())
  nconn,         \* number of connections opened so far
  wire,          \* per connection: the client.send() requests not yet settled
  \* suspended async calls
  task,          \* connectWithRetry() calls: task 0 is _autoReconnect's, others are callers'
  dpc,           \* disconnect(): "idle" or "ending" (awaiting client.end())
  dconn,         \* the connection disconnect() is ending
  \* what became of each send() promise
  cmd,           \* "new", "queued", "sent" (in flight), "resolved", "rejNC", "rejErr"
  sent           \* the commands written to a connection, in the order written

rvars == <<connected, reconnecting, processing, client, queue, heartbeat, conns,
           nconn, wire, task, dpc, dconn, cmd, sent>>

\* The readiness checker.
VARIABLES
  wpc,             \* "idle", the probe awaited ("container", "log", "port", "rcon"),
                   \* "sleep", or how the call ended: "ready", "timeout"
  now,             \* Date.now()
  startTime,       \* const startTime
  timeoutMs,       \* options.timeoutMs
  pollIntervalMs,  \* options.pollIntervalMs
  rconReady,       \* the rconReady of the result
  envRunning,      \* the container is running
  envDone,         \* the startup marker is in the last 100 log lines
  envPort,         \* the game port accepts connections
  envRcon,         \* the RCON port accepts connections
  neverDone,       \* this workload never logs the startup marker
  held,            \* the conditions that held when this poll tick probed them
  everAll          \* container, marker and game port have all held at one moment

wvars == <<wpc, now, startTime, timeoutMs, pollIntervalMs, rconReady, envRunning,
           envDone, envPort, envRcon, neverDone, held, everAll>>

\* The lifecycle handlers.
VARIABLES
  serverState,   \* let serverState: "stopped", "starting", "running", "stopping"
  rconClient,    \* the handlers hold a session object (rconClient is not null)
  following,     \* logsManager is following
  polling,       \* statsManager is polling
  hStart,        \* server:start: "idle", or the await it is at: "log", "up", "env"
  hStop,         \* server:stop: "idle", "disconnect", "log", "down"
  hWait,         \* server:wait-ready: "idle", "waitForReady", "connect", "log",
                 \* "isRunning", "catch"
  hStatus,       \* server:status: "idle", "isRunning", "resume", "checkStatus"
  isRunning,     \* [handler |-> what its compose.isRunning() saw]
  stopSince      \* server:stop was invoked since the last server:start

ivars == <<serverState, rconClient, following, polling, hStart, hStop, hWait, hStatus,
           isRunning, stopSince>>

\* The variables of the readiness model other than the container.
wrest == <<wpc, now, startTime, timeoutMs, pollIntervalMs, rconReady, envDone, envPort,
           envRcon, neverDone, held, everAll>>

\* LogsManager and StatsManager.
VARIABLES
  stream,        \* this.stream: the stream held, 0 when null
  streams,       \* the log streams that are open (not destroyed, not ended)
  fcall,         \* [call |-> where that startFollowing() is: "idle", "getContainer", "logs"]
  pollInterval,  \* this.pollInterval: the timer held, 0 when null
  timers,        \* the interval timers that are running
  pcall,         \* [call |-> where that startPolling() is: "idle", "poll"]
  inflight,      \* the polls whose getStats() has not settled, in the order they began
  listeners,     \* the number of 'stats' listeners of statsManager
  lastSample,    \* the sample that the 'stats' listeners received last
  logPhase,      \* "open"; "stopping" since server:stop was invoked; "quiet" since it
                 \* completed or console:stop-follow ran; "open" again when
                 \* startFollowing() is invoked
  statPhase      \* the same for startPolling()

mvars == <<stream, streams, fcall, pollInterval, timers, pcall, inflight, listeners,
           lastSample, logPhase, statPhase>>

\* BackupManager, the data volume and the backups volume.
VARIABLES
  backupRunning,  \* BackupManager's this.isRunning
  bcall,          \* [call |-> where that createBackup() or restoreBackup() is, its options,
                  \* its wasRunning and what its worker did]
  world,          \* what /data/world holds: 0 when it does not exist
  worldOld,       \* what /data/world.old holds: 0 when it does not exist
  volume,         \* the archives on the backups volume: [name |-> [date, size]]
  maxBackups,     \* this.maxBackups
  maxSizeMB,      \* this.maxSizeMB
  rpc,            \* applyRetention(): "idle", "list", "count", "size", "returned", "threw"
  rcaller,        \* the createBackup() call that awaits applyRetention(), 0 for another caller
  listed,         \* the names of const backups, as listBackups() returned them
  sortedBackups,  \* const sortedBackups
  deleted,        \* const deleted
  totalSize       \* let totalSize

bvars == <<backupRunning, bcall, world, worldOld, volume, maxBackups, maxSizeMB, rpc,
           rcaller, listed, sortedBackups, deleted, totalSize>>

\* RconCommands.
VARIABLES
  passed,   \* the command string that the latest call passed to this.rcon.send()
  player    \* the player argument of that call

cvars == <<passed, player>>

\* StatsManager.getStats().
VARIABLES
  stats,   \* rawStats, the answer of container.stats({stream: false}); a counter that
           \* is 0 is one that is 0 or missing
  cpu      \* the cpu of the sample: percent and totalPercent in tenths of a percent;
           \* cores is 0 as long as no sample has been computed

svars == <<stats, cpu>>

\* The log buffer of LogsManager.
VARIABLES
  buffer,         \* this.buffer: the entries kept, oldest first
  maxBufferSize,  \* this.maxBufferSize
  appended,       \* every entry that _addToBuffer was called with, in the order of the calls
  nlines          \* the lines that the container has written while it was followed

lvars == <<buffer, maxBufferSize, appended, nlines>>

\* One followed log stream, byte by byte.
VARIABLES
  pending,     \* the bytes of the stream that have not been delivered yet
  framed,      \* the stream is multiplexed: every write of the container is a frame
  delivered,   \* the bytes delivered, as one string
  lineBuffer,  \* let lineBuffer of the 'data' handler
  emitted,     \* the entries emitted as 'log', in order
  snapshot     \* what the latest getSnapshot() returned

tvars == <<pending, framed, delivered, lineBuffer, emitted, snapshot>>

\* _parseLine.
VARIABLES
  logLine,  \* the line that the server logged, by its parts
  parsed    \* what _parseLine returned for it

evars == <<logLine, parsed>>

\* The rate limiter of console:command.
VARIABLES
  clock,      \* Date.now()
  window,     \* rateLimiters.get('console'): the timestamps stored
  passes,     \* the timestamps of all requests that passed the limiter
  refused,    \* the latest request was refused by the limiter
  awaiting,   \* the console:command handlers that await ensureRcon()
  forwarded   \* the commands handed to rconClient.send()

kvars == <<clock, window, passes, refused, awaiting, forwarded>>

\* _runHelper: the helper's worker containers.
VARIABLES
  hcall,    \* each _runHelper call: its position, its container, whether its body threw,
            \* and how its container.remove() settled
  workers   \* the worker containers that exist in Docker

hvars == <<hcall, workers>>

\* The event logger.
VARIABLES
  logFile,   \* the entries of the events file, oldest first
  ecall,     \* each log() call: its position, its entry, the entries it read
  logged,    \* the number of events passed to log() so far
  returned   \* the events whose log() call has returned

gvars == <<logFile, ecall, logged, returned>>

\* The components added to the managers: the log buffer, the stream reader, the line
\* parser and the rate limiter.
yvars == <<lvars, tvars, evars, kvars, hvars, gvars>>

\* The components that the session, the checker and the lifecycle handlers leave alone.
xvars == <<mvars, bvars, cvars, svars, yvars>>

\* The session as one value, so that a handler is a function from state to state.
Rc ==
  [connected |-> connected, reconnecting |-> reconnecting, processing |-> processing,
   client |-> client, queue |-> queue, heartbeat |-> heartbeat, conns |-> conns,
   nconn |-> nconn, wire |-> wire, task |-> task, dpc |-> dpc, dconn |-> dconn,
   cmd |-> cmd, sent |-> sent]

SetRc(r) ==
  /\ connected' = r.connected
  /\ reconnecting' = r.reconnecting
  /\ processing' = r.processing
  /\ client' = r.client
  /\ queue' = r.queue
  /\ heartbeat' = r.heartbeat
  /\ conns' = r.conns
  /\ nconn' = r.nconn
  /\ wire' = r.wire
  /\ task' = r.task
  /\ dpc' = r.dpc
  /\ dconn' = r.dconn
  /\ cmd' = r.cmd
  /\ sent' = r.sent

\* A step of the session on its own: the checker and the handlers stand still.
RconStep(r) == SetRc(r) /\ UNCHANGED <<wvars, ivars, xvars>>

\* A connectWithRetry() call: where it is suspended ("connecting": in connect(),
\* awaiting Rcon.connect; "sleeping": in its backoff sleep) or how it left ("returned"
\* after a connect() that succeeded, "fellthrough" the for loop, "exhausted": threw),
\* its loop counter, its budget, and whether no other connectWithRetry() call has
\* run beside it.
IdleTask == [pc |-> "idle", attempt |-> 0, max |-> 0, alone |-> TRUE]

InitRcon ==
  /\ connected = FALSE
  /\ reconnecting = FALSE
  /\ processing = FALSE
  /\ client = 0
  /\ queue = <<>>
  /\ heartbeat = FALSE
  /\ conns = {}
  /\ nconn = 0
  /\ wire = [c \in ConnIds |-> <<>>]
  /\ task = [t \in TaskIds |-> IdleTask]
  /\ dpc = "idle"
  /\ dconn = 0
  /\ cmd = [k \in Cmds |-> "new"]
  /\ sent = <<>>

InQueue(k, q) == \E i \in 1..Len(q) : q[i] = k

RemoveAt(s, i) == [j \in 1..(Len(s) - 1) |-> IF j < i THEN s[j] ELSE s[j + 1]]

\* ------------------------------------------------------ command queue

\* _sendDirect(command): throws when there is no session, else client.send(command)
\* hands the request to the connection.
SendDirectThrows(r) == ~r.connected \/ r.client = 0 \/ r.client \notin r.conns

SendDirect(r, req) == [r EXCEPT !.wire[r.client] = Append(@, req)]

\* _processQueue's while loop, from its test to the next await or to its exit.
RECURSIVE WorkerLoop(_)
WorkerLoop(r) ==
  IF Len(r.queue) > 0 /\ r.connected
  THEN LET k == Head(r.queue)
           r1 == [r EXCEPT !.queue = Tail(@)]
       IN IF SendDirectThrows(r1)
          THEN WorkerLoop([r1 EXCEPT !.cmd[k] = "rejNC"])
          ELSE [SendDirect(r1, [kind |-> "cmd", cmd |-> k])
                  EXCEPT !.cmd[k] = "sent", !.sent = Append(@, k)]
  ELSE [r EXCEPT !.processing = FALSE]

\* The branch of _processQueue for a session that is down.
RejectIfDown(r) ==
  IF ~r.reconnecting
  THEN [r EXCEPT !.cmd = [k \in Cmds |-> IF InQueue(k, r.queue) THEN "rejNC" ELSE @[k]],
                 !.queue = <<>>]
  ELSE r

ProcessQueue(r) ==
  IF r.processing \/ Len(r.queue) = 0 THEN r
  ELSE IF ~r.connected THEN RejectIfDown(r)
  ELSE WorkerLoop([r EXCEPT !.processing = TRUE])

\* send(command): push, then _processQueue() up to its first await.
SendCall(r, k) == ProcessQueue([r EXCEPT !.queue = Append(@, k), !.cmd[k] = "queued"])

Send(k) ==
  /\ cmd[k] = "new"
  /\ \A j \in Cmds : j < k => cmd[j] # "new"
  /\ RconStep(SendCall(Rc, k))

\* The request at place i of connection c settles: a command's worker resumes after
\* its await, a heartbeat's callback has nothing left to do.
Settle(r, c, i, ok) ==
  LET req == r.wire[c][i]
      r1 == [r EXCEPT !.wire[c] = RemoveAt(@, i)]
  IN IF req.kind = "cmd"
     THEN WorkerLoop([r1 EXCEPT !.cmd[req.cmd] = IF ok THEN "resolved" ELSE "rejErr"])
     ELSE r1

\* The server answers the oldest request of an open connection.
Response(c) ==
  /\ c \in conns
  /\ Len(wire[c]) > 0
  /\ RconStep(Settle(Rc, c, 1, TRUE))

\* A request fails on its own (the library's per-request timeout).
RequestFails(c, i) ==
  /\ c \in conns
  /\ i \in 1..Len(wire[c])
  /\ RconStep(Settle(Rc, c, i, FALSE))

\* ---------------------------------------------------------- heartbeat

\* One tick of the setInterval callback of _startHeartbeat.
HeartbeatCall(r) ==
  IF ~r.connected THEN r
  ELSE IF SendDirectThrows(r) THEN r
  ELSE SendDirect(r, [kind |-> "hb", cmd |-> 0])

HeartbeatTick ==
  /\ heartbeat
  /\ client # 0 => Len(wire[client]) < MaxWire
  /\ RconStep(HeartbeatCall(Rc))

\* --------------------------------------------------------- connection

\* connectWithRetry() leaves: by `return` after a connect() that succeeded, by
\* falling out of the for loop, or by throwing after the last failed attempt.
\* _autoReconnect (task 0) then runs its try or its catch branch.
\* TaskReturns with a catch block that forgets this.reconnecting = false.
TaskReturnsKeepsFlag(r, t, res) ==
  LET r1 == [r EXCEPT !.task[t].pc = res]
  IN IF t # AutoTask THEN r1
     ELSE IF res = "exhausted" THEN r1
     ELSE ProcessQueue([r1 EXCEPT !.reconnecting = FALSE])

TaskReturns(r, t, res) ==
  LET r1 == [r EXCEPT !.task[t].pc = res]
  IN IF t # AutoTask THEN r1
     ELSE IF res = "exhausted" THEN [r1 EXCEPT !.reconnecting = FALSE]
     ELSE ProcessQueue([r1 EXCEPT !.reconnecting = FALSE])

\* The top of connectWithRetry's for loop at attempt a, up to the await in connect().
LoopTop(r, t, a) ==
  IF a <= r.task[t].max
  THEN LET r1 == [r EXCEPT !.task[t].attempt = a]
       IN IF r1.connected
          THEN TaskReturns(r1, t, "returned")
          ELSE [r1 EXCEPT !.task[t].pc = "connecting"]
  ELSE TaskReturns(r, t, "fellthrough")

Busy(tk) == tk.pc \in {"connecting", "sleeping"}

StartTask(r, t, m) ==
  LET others == \E u \in TaskIds : u # t /\ Busy(r.task[u])
      r1 == [r EXCEPT !.task = [u \in TaskIds |->
                        IF u = t THEN [IdleTask EXCEPT !.max = m, !.alone = t # AutoTask \/ ~others]
                        ELSE IF u = AutoTask /\ Busy(@[u]) THEN [@[u] EXCEPT !.alone = FALSE]
                        ELSE @[u]]]
  IN LoopTop(r1, t, 1)

\* A caller invokes connectWithRetry({maxAttempts: m}).
ConnectWithRetry(t, m) ==
  /\ t # AutoTask
  /\ ~Busy(task[t])
  /\ RconStep(StartTask(Rc, t, m))

\* connect() after Rcon.connect resolved: the new connection replaces this.client,
\* gets the 'end' handler, and the heartbeat is (re)started.
ConnectResumes(r, c) ==
  [r EXCEPT !.client = c, !.connected = TRUE, !.conns = @ \cup {c}, !.nconn = c,
            !.heartbeat = TRUE]

ConnectSucceeds(t) ==
  /\ task[t].pc = "connecting"
  /\ nconn < MaxConn
  /\ RconStep(TaskReturns(ConnectResumes(Rc, nconn + 1), t, "returned"))

\* connectWithRetry's catch: throw on the last attempt, else sleep.
AttemptFailed(r, t) ==
  IF r.task[t].attempt = r.task[t].max
  THEN TaskReturns(r, t, "exhausted")
  ELSE [r EXCEPT !.task[t].pc = "sleeping"]

ConnectFails(t) ==
  /\ task[t].pc = "connecting"
  /\ RconStep(AttemptFailed(Rc, t))

\* The backoff sleep ends: delay grows, next iteration.
SleepEnds(t) ==
  /\ task[t].pc = "sleeping"
  /\ RconStep(LoopTop(Rc, t, task[t].attempt + 1))

\* _autoReconnect up to the await inside its connectWithRetry.
AutoReconnect(r) ==
  StartTask([r EXCEPT !.reconnecting = TRUE], AutoTask, AutoMaxAttempts)

\* _handleDisconnect, the 'end' handler of every connection connect() opened.
HandleDisconnect(r) ==
  LET r1 == [r EXCEPT !.connected = FALSE, !.heartbeat = FALSE]
  IN IF ~r1.reconnecting THEN AutoReconnect(r1) ELSE r1

\* The requests still outstanding on a connection that ended are rejected.
RECURSIVE RejectPending(_, _)
RejectPending(r, c) ==
  IF Len(r.wire[c]) = 0 THEN r ELSE RejectPending(Settle(r, c, 1, FALSE), c)

\* --------------------------------------------------------- disconnect

\* disconnect() after its await: the queue is replaced by an empty one.
DisconnectTail(r) ==
  [r EXCEPT !.client = 0, !.connected = FALSE, !.processing = FALSE, !.queue = <<>>,
            !.dpc = "idle", !.dconn = 0]

\* disconnect() up to `await this.client.end()`; with no client, or a client whose
\* end() throws because it is closed already, it runs to its end.
DisconnectCall(r) ==
  LET r1 == [r EXCEPT !.heartbeat = FALSE]
  IN IF r1.client # 0 /\ r1.client \in r1.conns
     THEN [r1 EXCEPT !.dpc = "ending", !.dconn = r1.client]
     ELSE DisconnectTail(r1)

Disconnect ==
  /\ dpc = "idle"
  /\ RconStep(DisconnectCall(Rc))

\* client.end() resolves on the 'end' event of the connection it closes.
EndResolves(r, c) ==
  IF r.dpc = "ending" /\ r.dconn = c THEN DisconnectTail(r) ELSE r

\* Connection c ends (the server went away, or client.end() closed it). The 'end'
\* event runs _handleDisconnect; then, before any other I/O, the continuations run
\* of the requests the end rejected and of a disconnect() awaiting this end.
ConnectionEnds(c) ==
  /\ c \in conns
  /\ RconStep(EndResolves(RejectPending(HandleDisconnect([Rc EXCEPT !.conns = @ \ {c}]), c), c))

(***************************************************************************)
(* ReadinessChecker.waitForReady (core/server/readiness). Time is a clock  *)
(* in ticks: a probe takes 0..MaxProbeDelay ticks, a sleep pollIntervalMs. *)
(* The workload is the environment: whether its container runs, whether    *)
(* the startup marker is in its recent log output and whether its ports    *)
(* accept connections may each change at any moment.                       *)
(***************************************************************************)
AllHold(run, done, port) == run /\ done /\ port

InitReady ==
  /\ wpc = "idle"
  /\ now = 0
  /\ startTime = 0
  /\ timeoutMs = 0
  /\ pollIntervalMs = 1
  /\ rconReady = FALSE
  /\ envRunning = FALSE
  /\ envDone = FALSE
  /\ envPort = FALSE
  /\ envRcon = FALSE
  /\ neverDone \in BOOLEAN
  /\ held = {}
  /\ everAll = FALSE

\* The state of the readiness checker in the specifications that do not run it.
ReadyIdle == InitReady /\ neverDone = FALSE

\* while (Date.now() - startTime < timeoutMs): the first probe, or the throw.
\* LoopTest with a ceiling one tick short.
LoopTestEarly(n, s, t) == IF n - s + 1 < t THEN "container" ELSE "timeout"

LoopTest(n, s, t) == IF n - s < t THEN "container" ELSE "timeout"

\* Where waitForReady goes after each probe: on, or to the sleep before `continue`.
AfterContainer(containerRunning) == IF containerRunning THEN "log" ELSE "sleep"

AfterDoneLog(doneLogged) == IF doneLogged THEN "port" ELSE "sleep"

\* AfterPort without the `if (!portReady)` block.
AfterPortUnchecked(portReady) == "rcon"

AfterPort(portReady) == IF portReady THEN "rcon" ELSE "sleep"

Held(name, cond) == IF cond THEN held \cup {name} ELSE held

\* A caller invokes waitForReady({timeoutMs: t, pollIntervalMs: p}).
WaitForReady(t, p) ==
  /\ wpc = "idle"
  /\ startTime' = now
  /\ timeoutMs' = t
  /\ pollIntervalMs' = p
  /\ wpc' = LoopTest(now, now, t)
  /\ held' = {}
  /\ UNCHANGED <<now, rconReady, envRunning, envDone, envPort, envRcon, neverDone, everAll,
                 rvars, ivars, xvars>>

\* A probe returns after d ticks; ok = FALSE is a probe that failed (an exception, a
\* socket error or timeout), which each _check method turns into false.
CheckContainerRunning(d, ok) ==
  /\ wpc = "container"
  /\ now' = now + d
  /\ wpc' = AfterContainer(envRunning /\ ok)
  /\ held' = Held("container", envRunning)
  /\ UNCHANGED <<startTime, timeoutMs, pollIntervalMs, rconReady, envRunning, envDone,
                 envPort, envRcon, neverDone, everAll,
                 rvars, ivars, xvars>>

CheckDoneLog(d, ok) ==
  /\ wpc = "log"
  /\ now' = now + d
  /\ wpc' = AfterDoneLog(envDone /\ ok)
  /\ held' = Held("log", envDone)
  /\ UNCHANGED <<startTime, timeoutMs, pollIntervalMs, rconReady, envRunning, envDone,
                 envPort, envRcon, neverDone, everAll,
                 rvars, ivars, xvars>>

CheckPort(d, ok) ==
  /\ wpc = "port"
  /\ now' = now + d
  /\ wpc' = AfterPort(envPort /\ ok)
  /\ held' = Held("port", envPort)
  /\ UNCHANGED <<startTime, timeoutMs, pollIntervalMs, rconReady, envRunning, envDone,
                 envPort, envRcon, neverDone, everAll,
                 rvars, ivars, xvars>>

\* The RCON port probe never blocks the result: return {ready: true, rconReady}.
CheckRconPort(d, ok) ==
  /\ wpc = "rcon"
  /\ now' = now + d
  /\ rconReady' = (envRcon /\ ok)
  /\ wpc' = "ready"
  /\ UNCHANGED <<startTime, timeoutMs, pollIntervalMs, envRunning, envDone, envPort,
                 envRcon, neverDone, held, everAll,
                 rvars, ivars, xvars>>

\* await this._sleep(pollIntervalMs); continue
SleepReturns ==
  /\ wpc = "sleep"
  /\ now' = now + pollIntervalMs
  /\ wpc' = LoopTest(now + pollIntervalMs, startTime, timeoutMs)
  /\ held' = {}
  /\ UNCHANGED <<startTime, timeoutMs, pollIntervalMs, rconReady, envRunning, envDone,
                 envPort, envRcon, neverDone, everAll,
                 rvars, ivars, xvars>>

\* The workload changes; a workload that never logs the marker keeps envDone false.
WorkloadChanges(run, done, port, rc) ==
  /\ wpc \notin {"ready", "timeout"}
  /\ neverDone => ~done
  /\ <<run, done, port, rc>> # <<envRunning, envDone, envPort, envRcon>>
  /\ envRunning' = run
  /\ envDone' = done
  /\ envPort' = port
  /\ envRcon' = rc
  /\ everAll' = (everAll \/ AllHold(run, done, port))
  /\ UNCHANGED <<wpc, now, startTime, timeoutMs, pollIntervalMs, rconReady, neverDone, held,
                 rvars, ivars, xvars>>

WaitSteps ==
  \/ \E d \in 0..MaxProbeDelay : \E ok \in BOOLEAN : CheckContainerRunning(d, ok)
  \/ \E d \in 0..MaxProbeDelay : \E ok \in BOOLEAN : CheckDoneLog(d, ok)
  \/ \E d \in 0..MaxProbeDelay : \E ok \in BOOLEAN : CheckPort(d, ok)
  \/ \E d \in 0..MaxProbeDelay : \E ok \in BOOLEAN : CheckRconPort(d, ok)
  \/ SleepReturns

NextReady ==
  \/ \E t \in 0..MaxTimeout : \E p \in 1..MaxPoll : WaitForReady(t, p)
  \/ WaitSteps
  \/ \E run, done, port, rc \in BOOLEAN : WorkloadChanges(run, done, port, rc)

\* ----------------------------------------------------------- telemetry
\* The raw counters, in units of 100: the usage of the container and of the system,
\* now and at the sample before; online_cpus and the length of percpu_usage.
Usages == {100 * k : k \in 0..MaxUsage}
SystemUsages == {100 * k : k \in 0..MaxSystem}

RawStats ==
  [total_usage : Usages, pre_total_usage : Usages,
   system_cpu_usage : SystemUsages, pre_system_cpu_usage : SystemUsages,
   online_cpus : 0..MaxCpus, percpu_usage : 0..MaxPerCpu]

\* No sample computed.
NoCpu == [percent |-> 0, cores |-> 0, totalPercent |-> 0]

\* The application before its first getStats().
InitStats ==
  /\ stats = [total_usage |-> 0, pre_total_usage |-> 0, system_cpu_usage |-> 0,
              pre_system_cpu_usage |-> 0, online_cpus |-> 0, percpu_usage |-> 0]
  /\ cpu = NoCpu

\* Math.round(num / den * 10), for num >= 0 and den > 0: the tenths, halves rounded up.
RoundTenths(num, den) == (2 * 10 * num + den) \div (2 * den)

CpuDelta(st) == st.total_usage - st.pre_total_usage
SystemDelta(st) == st.system_cpu_usage - st.pre_system_cpu_usage

\* cpuStats.online_cpus || cpuStats.cpu_usage?.percpu_usage?.length || 1
CpuCount(st) ==
  IF st.online_cpus # 0 THEN st.online_cpus
  ELSE IF st.percpu_usage # 0 THEN st.percpu_usage
  ELSE 1

\* _calculateCpu with a totalPercent that leaves the cores out.
CalculateCpuOneCore(st) ==
  LET positive == SystemDelta(st) > 0 /\ CpuDelta(st) > 0
  IN [percent |-> IF positive THEN RoundTenths(CpuDelta(st) * 100, SystemDelta(st)) ELSE 0,
      cores |-> CpuCount(st),
      totalPercent |-> IF positive
                       THEN RoundTenths(CpuDelta(st) * 100, SystemDelta(st))
                       ELSE 0]

\* _calculateCpu(stats): cpuPercent = (cpuDelta / systemDelta) * 100 when both deltas
\* are positive, else 0; percent and totalPercent are rounded to one decimal.
CalculateCpu(st) ==
  LET positive == SystemDelta(st) > 0 /\ CpuDelta(st) > 0
  IN [percent |-> IF positive THEN RoundTenths(CpuDelta(st) * 100, SystemDelta(st)) ELSE 0,
      cores |-> CpuCount(st),
      totalPercent |-> IF positive
                       THEN RoundTenths(CpuDelta(st) * 100 * CpuCount(st), SystemDelta(st))
                       ELSE 0]

(***************************************************************************)
(* LogsManager follow mode and StatsManager polling (core/docker/logs,     *)
(* core/docker/stats). A stream delivers data until it is destroyed or     *)
(* ends, each complete line being buffered and emitted as 'log' by the     *)
(* 'data' handler; an interval timer ticks until it is cleared.            *)
(***************************************************************************)
FollowCalls == 1..MaxFollow
PollCalls == 1..MaxPollCalls

\* The handle of a new stream or timer: one that no open stream or running timer has.
Fresh(used) == CHOOSE n \in 1..(Cardinality(used) + 1) : n \notin used

\* A poll whose getStats() has not settled: the startPolling() call that awaits it (0: a
\* timer tick), and whether a poll begun after it has delivered its sample meanwhile.
Poll(by) == [by |-> by, overtaken |-> FALSE]

\* The polls of timer ticks among the polls in flight.
Ticks(polls) == {i \in 1..Len(polls) : polls[i].by = 0}

\* What container.stats({stream: false}) answers: the container was idle between docker's
\* two readings of the counters, or it used half of the system's time.
IdleAnswer ==
  [total_usage |-> 100, pre_total_usage |-> 100, system_cpu_usage |-> 1000,
   pre_system_cpu_usage |-> 800, online_cpus |-> 2, percpu_usage |-> 0]
BusyAnswer ==
  [total_usage |-> 200, pre_total_usage |-> 100, system_cpu_usage |-> 1000,
   pre_system_cpu_usage |-> 800, online_cpus |-> 2, percpu_usage |-> 0]
Answers == {IdleAnswer, BusyAnswer}

\* No sample delivered yet.
NoSample == [delivered |-> FALSE, first |-> FALSE, live |-> TRUE, overtaken |-> FALSE,
             percent |-> 0]

\* this.emit('stats', stats) for the poll at place i: the sample goes to the listeners
\* there are; it is the sample of startPolling's own poll or of a tick, it is emitted while
\* this.polling or not, and its cpu is that of the answer.
EmitStats(i, raw) ==
  IF listeners = 0 THEN lastSample
  ELSE [delivered |-> TRUE, first |-> inflight[i].by # 0, live |-> polling,
        overtaken |-> inflight[i].overtaken, percent |-> CalculateCpu(raw).percent]

\* The polls left in flight when the poll at place i has settled; the ones begun before it
\* have been overtaken if its sample was delivered.
Settled(i, ok) ==
  RemoveAt([j \in 1..Len(inflight) |->
              IF j < i /\ ok /\ listeners > 0
              THEN [inflight[j] EXCEPT !.overtaken = TRUE]
              ELSE inflight[j]], i)

InitManagers ==
  /\ stream = 0
  /\ streams = {}
  /\ fcall = [p \in FollowCalls |-> "idle"]
  /\ pollInterval = 0
  /\ timers = {}
  /\ pcall = [q \in PollCalls |-> "idle"]
  /\ inflight = <<>>
  /\ listeners = 0
  /\ lastSample = NoSample
  /\ logPhase = "open"
  /\ statPhase = "open"

\* What a step of LogsManager leaves alone, and what one of StatsManager does.
logFrame == <<rvars, wvars, serverState, rconClient, polling, hStart, hStop, hWait, hStatus,
              isRunning, stopSince, pollInterval, timers, pcall, inflight,
              listeners, lastSample, statPhase, bvars, cvars, svars, yvars>>

statFrame == <<rvars, wvars, serverState, rconClient, following, hStart, hStop, hWait,
               hStatus, isRunning, stopSince, stream, streams, fcall, logPhase, bvars,
               cvars, svars, yvars>>

\* startFollowing(): if (this.following) return; else await this.compose.getContainer().
StartFollowing(p) ==
  /\ fcall[p] = "idle"
  /\ logPhase' = "open"
  /\ fcall' = [fcall EXCEPT ![p] = IF following THEN "idle" ELSE "getContainer"]
  /\ UNCHANGED <<following, stream, streams, logFrame>>

\* getContainer() settles: the container, or an exception that startFollowing passes on.
FollowGotContainer(p, ok) ==
  /\ fcall[p] = "getContainer"
  /\ fcall' = [fcall EXCEPT ![p] = IF ok THEN "logs" ELSE "idle"]
  /\ UNCHANGED <<following, stream, streams, logPhase, logFrame>>

\* container.logs({follow: true}) settles: this.stream = the new stream, this.following =
\* true, and the handlers are registered on it.
FollowGotStream(p, ok) ==
  /\ fcall[p] = "logs"
  /\ fcall' = [fcall EXCEPT ![p] = "idle"]
  /\ IF ok
     THEN /\ Cardinality(streams) < MaxStreams
          /\ stream' = Fresh(streams)
          /\ streams' = streams \cup {Fresh(streams)}
          /\ following' = TRUE
     ELSE UNCHANGED <<following, stream, streams>>
  /\ UNCHANGED <<logPhase, logFrame>>

\* stream.on('end'): this.following = false; this.stream = null.
StreamEnds(s) ==
  /\ s \in streams
  /\ streams' = streams \ {s}
  /\ following' = FALSE
  /\ stream' = 0
  /\ UNCHANGED <<fcall, logPhase, logFrame>>

\* stopFollowing(): destroy the stream held, if any; this.following = false.
StopFollowing ==
  /\ streams' = streams \ {stream}
  /\ stream' = 0
  /\ following' = FALSE

\* startPolling(): if (this.polling) return; else this.polling = true; await poll(), whose
\* getStats() is awaited.
StartPollingCall(q) ==
  /\ pcall[q] = "idle"
  /\ statPhase' = "open"
  /\ pcall' = [pcall EXCEPT ![q] = IF polling THEN "idle" ELSE "poll"]
  /\ inflight' = IF polling THEN inflight ELSE Append(inflight, Poll(q))
  /\ polling' = TRUE

StartPolling(q) ==
  /\ StartPollingCall(q)
  /\ UNCHANGED <<pollInterval, timers, listeners, lastSample, statFrame>>

\* stats:start-polling: statsManager.on('stats', ...) adds a listener to the ones there
\* are, then await statsManager.startPolling(intervalMs).
StatsStartPolling(q) ==
  /\ listeners < MaxListeners
  /\ listeners' = listeners + 1
  /\ StartPollingCall(q)
  /\ UNCHANGED <<pollInterval, timers, lastSample, statFrame>>

\* The getStats() of the first poll settles: poll emits 'stats' (ok) or 'error' without a
\* look at this.polling, and startPolling goes on: this.pollInterval = setInterval(...).
FirstPollSettles(q, ok, raw) ==
  /\ pcall[q] = "poll"
  /\ Cardinality(timers) < MaxTimers
  /\ LET i == CHOOSE j \in 1..Len(inflight) : inflight[j].by = q
     IN /\ lastSample' = IF ok THEN EmitStats(i, raw) ELSE lastSample
        /\ inflight' = Settled(i, ok)
  /\ pcall' = [pcall EXCEPT ![q] = "idle"]
  /\ pollInterval' = Fresh(timers)
  /\ timers' = timers \cup {Fresh(timers)}
  /\ UNCHANGED <<polling, listeners, statPhase, statFrame>>

\* A timer fires: poll() returns at once unless this.polling, else awaits getStats().
TimerTick(t) ==
  /\ t \in timers
  /\ Cardinality(Ticks(inflight)) < MaxInflight
  /\ polling
  /\ inflight' = Append(inflight, Poll(0))
  /\ UNCHANGED <<polling, pollInterval, timers, pcall, listeners, lastSample, statPhase,
                 statFrame>>

\* The getStats() of the tick at place i settles: 'stats' or 'error' is emitted as above.
TickSettles(i, ok, raw) ==
  /\ i \in Ticks(inflight)
  /\ lastSample' = IF ok THEN EmitStats(i, raw) ELSE lastSample
  /\ inflight' = Settled(i, ok)
  /\ UNCHANGED <<polling, pollInterval, timers, pcall, listeners, statPhase, statFrame>>

\* stopPolling(): this.polling = false; clear the timer held, if any.
StopPolling ==
  /\ polling' = FALSE
  /\ timers' = timers \ {pollInterval}
  /\ pollInterval' = 0

\* stats:stop-polling: stopPolling(), then removeAllListeners('stats').
StatsStopPolling ==
  /\ StopPolling
  /\ listeners' = 0
  /\ UNCHANGED <<pcall, inflight, lastSample, statPhase, statFrame>>

\* ------------------------------------------------------------ log buffer
\* What a step on the log buffer leaves alone.
bufferFrame == <<rvars, wvars, ivars, pollInterval, timers, pcall, inflight, listeners,
                 lastSample, statPhase, bvars, cvars, svars, tvars, evars, kvars, hvars, gvars>>

\* The LogsManager as constructed: this.buffer = [], this.maxBufferSize = 500.
InitLogs ==
  /\ buffer = <<>>
  /\ maxBufferSize = DefaultBufferSize
  /\ appended = <<>>
  /\ nlines = 0

\* _addToBuffer that never evicts.
AddToBufferUnbounded(buf, entry) == Append(buf, entry)

\* _addToBuffer(entry): this.buffer.push(entry); if the buffer is longer than
\* maxBufferSize, one this.buffer.shift().
AddToBuffer(buf, entry) ==
  LET pushed == Append(buf, entry)
  IN IF Len(pushed) > maxBufferSize THEN Tail(pushed) ELSE pushed

\* The entry buffered once per 'data' handler that gets the line.
RECURSIVE AddTimes(_, _, _)
AddTimes(buf, entry, k) ==
  IF k = 0 THEN buf ELSE AddTimes(AddToBuffer(buf, entry), entry, k - 1)

\* The container writes a line while it is followed: the 'data' handler of every open
\* stream gets the line, adds its entry to the buffer and emits it as 'log'. Entries are the
\* numbers of their lines.
LineArrives ==
  /\ nlines < MaxLines
  /\ streams # {}
  /\ nlines' = nlines + 1
  /\ buffer' = AddTimes(buffer, nlines + 1, Cardinality(streams))
  /\ appended' = appended \o [i \in 1..Cardinality(streams) |-> nlines + 1]
  /\ UNCHANGED <<maxBufferSize, following, stream, streams, fcall, logPhase, bufferFrame>>

\* while (this.buffer.length > this.maxBufferSize) this.buffer.shift()
RECURSIVE Trim(_, _)
Trim(buf, size) == IF Len(buf) > size THEN Trim(Tail(buf), size) ELSE buf

\* setBufferSize(size): this.maxBufferSize = size, then the buffer is trimmed to it.
SetBufferSize(size) ==
  /\ maxBufferSize' = size
  /\ buffer' = Trim(buffer, size)
  /\ UNCHANGED <<appended, nlines, following, stream, streams, fcall, logPhase, bufferFrame>>

\* console:stop-follow: logsManager.stopFollowing(), then removeAllListeners('log'); the
\* handler has no await, so following counts as stopped when it has run.
ConsoleStopFollow ==
  /\ StopFollowing
  /\ logPhase' = "quiet"
  /\ UNCHANGED <<fcall, logFrame>>

\* ------------------------------------------------------------ log stream
\* The 'data' handler of one followed stream and _parseLogBuffer, on streams of bytes.
\* Text is a sequence of character codes; an entry is taken by its raw text.
readerFrame == <<rvars, wvars, ivars, mvars, bvars, cvars, svars, maxBufferSize, nlines,
                 evars, kvars, hvars, gvars>>

\* The bytes of the model's texts: a, the space, the line feed, and the two bytes of an
\* e with acute accent (U+00E9).
TextBytes == {97, 32, 10, 195, 169}

\* The payload bytes of the model's frames.
PayloadBytes == {97, 10}

\* Byte strings of length n over the bytes bs, and of lengths from..to.
BytesOf(bs, n) == [1..n -> bs]
BytesUpTo(bs, from, to) == UNION {BytesOf(bs, n) : n \in from..to}

\* A frame of docker's multiplexed stream: the stream type (1 stdout, 2 stderr), three
\* reserved bytes, the payload size in four bytes, the payload.
Frame(type, payload) == <<type, 0, 0, 0, 0, 0, 0, Len(payload)>> \o payload
Frames == {Frame(type, payload) : type \in {1, 2},
                                 payload \in BytesUpTo(PayloadBytes, 1, MaxPayload)}

\* The streams of one frame up to MaxFrames frames.
RECURSIVE FramedStreams(_)
FramedStreams(n) ==
  IF n = 0 THEN {<<>>}
  ELSE {f \o s : f \in Frames, s \in FramedStreams(n - 1)} \cup FramedStreams(n - 1)

\* Nothing read yet.
InitReader ==
  /\ pending = <<>>
  /\ framed = FALSE
  /\ delivered = <<>>
  /\ lineBuffer = <<>>
  /\ emitted = <<>>
  /\ snapshot = <<>>

\* Buffer.toString('utf8') on one- and two-byte sequences: a lead byte without its
\* continuation byte, and a continuation byte without its lead, become U+FFFD.
RECURSIVE Utf8ToString(_)
Utf8ToString(b) ==
  IF b = <<>> THEN <<>>
  ELSE IF b[1] < 128 THEN <<b[1]>> \o Utf8ToString(Tail(b))
  ELSE IF b[1] \in 194..223 /\ Len(b) >= 2 /\ b[2] \in 128..191
       THEN <<(b[1] - 192) * 64 + (b[2] - 128)>> \o Utf8ToString(SubSeq(b, 3, Len(b)))
  ELSE <<Replacement>> \o Utf8ToString(Tail(b))

\* text.split('\n'): the pieces between the line feeds, one more than there are line feeds.
RECURSIVE Split(_)
Split(t) ==
  IF \A i \in 1..Len(t) : t[i] # 10 THEN <<t>>
  ELSE LET k == CHOOSE i \in 1..Len(t) : t[i] = 10 /\ \A j \in 1..(i - 1) : t[j] # 10
       IN <<SubSeq(t, 1, k - 1)>> \o Split(SubSeq(t, k + 1, Len(t)))

\* line.trim(): the white space at both ends removed.
WhiteSpace == {9, 10, 11, 12, 13, 32, 160}
RECURSIVE TrimStart(_)
TrimStart(t) == IF t # <<>> /\ t[1] \in WhiteSpace THEN TrimStart(Tail(t)) ELSE t
RECURSIVE TrimEnd(_)
TrimEnd(t) ==
  IF t # <<>> /\ t[Len(t)] \in WhiteSpace THEN TrimEnd(SubSeq(t, 1, Len(t) - 1)) ELSE t
TrimText(t) == TrimEnd(TrimStart(t))

\* let text = chunk.toString('utf8'); if (chunk.length > 8 && (chunk[0] === 1 ||
\* chunk[0] === 2)) text = chunk.slice(8).toString('utf8').
ChunkText(chunk) ==
  IF Len(chunk) > HeaderLength /\ chunk[1] \in {1, 2}
  THEN Utf8ToString(SubSeq(chunk, HeaderLength + 1, Len(chunk)))
  ELSE Utf8ToString(chunk)

\* The 'data' handler on a chunk: lineBuffer += text; the pieces but the last are the
\* complete lines, the last is the new lineBuffer; a line that is not blank is parsed,
\* buffered and emitted trimmed.
OnData(rest, chunk) ==
  LET pieces == Split(rest \o ChunkText(chunk))
      lines == [i \in 1..(Len(pieces) - 1) |-> TrimText(pieces[i])]
  IN [lineBuffer |-> pieces[Len(pieces)],
      entries |-> SelectSeq(lines, LAMBDA l : l # <<>>)]

RECURSIVE AddAll(_, _)
AddAll(buf, entries) ==
  IF entries = <<>> THEN buf ELSE AddAll(AddToBuffer(buf, Head(entries)), Tail(entries))

\* The stream delivers its next n bytes as one chunk.
Data(n) ==
  /\ n \in 1..Len(pending)
  /\ LET chunk == SubSeq(pending, 1, n)
         read == OnData(lineBuffer, chunk)
     IN /\ pending' = SubSeq(pending, n + 1, Len(pending))
        /\ delivered' = delivered \o chunk
        /\ lineBuffer' = read.lineBuffer
        /\ emitted' = emitted \o read.entries
        /\ buffer' = AddAll(buffer, read.entries)
        /\ appended' = appended \o read.entries
  /\ UNCHANGED <<framed, snapshot, readerFrame>>

\* content.split('\n').filter(l => l.trim())
NonBlank(pieces) == SelectSeq(pieces, LAMBDA l : TrimText(l) # <<>>)

\* buffer.readUInt32BE(at), at counted from 0.
ReadUInt32BE(b, at) == ((b[at + 1] * 256 + b[at + 2]) * 256 + b[at + 3]) * 256 + b[at + 4]

\* _parseLogBuffer(buffer) from offset on: while a frame header is at the offset, the lines
\* of the frame's content; without a header the lines of the rest.
RECURSIVE ParseLogBuffer(_, _)
ParseLogBuffer(b, offset) ==
  IF offset >= Len(b) THEN <<>>
  ELSE IF Len(b) - offset >= HeaderLength /\ b[offset + 1] \in {1, 2}
       THEN LET size == ReadUInt32BE(b, offset + 4)
                stop == IF offset + HeaderLength + size < Len(b)
                        THEN offset + HeaderLength + size ELSE Len(b)
                content == Utf8ToString(SubSeq(b, offset + HeaderLength + 1, stop))
            IN NonBlank(Split(content)) \o ParseLogBuffer(b, offset + HeaderLength + size)
       ELSE NonBlank(Split(Utf8ToString(SubSeq(b, offset + 1, Len(b)))))

\* getSnapshot(): container.logs() answers the whole stream as one buffer.
GetSnapshot ==
  /\ snapshot' = ParseLogBuffer(delivered \o pending, 0)
  /\ UNCHANGED <<pending, framed, delivered, lineBuffer, emitted, buffer, appended,
                 readerFrame>>

\* ------------------------------------------------------------ _parseLine
\* A line is a sequence of tokens: the brackets, the slash, the colon, the space, and
\* words, which hold none of these; a severity word is a token of its own.
Levels == {"INFO", "WARN", "ERROR", "DEBUG", "FATAL"}

\* levelMatch[1].toUpperCase(), on the words of the model.
ToUpperCase(word) == IF word = "warn" THEN "WARN" ELSE word

\* What the server logged: whether docker's timestamp and the server's time of day
\* stand in front, the thread label and the severity word of the bracketed prefix ("" when
\* the prefix carries none) and the message.
LogLines ==
  [stamp : BOOLEAN, time : BOOLEAN, thread : {"", "main", "Server thread"},
   level : {""} \cup Levels \cup {"warn"},
   msg : {<<"Done">>, <<"Stopping", " ", "server">>}]

\* The text of the line: 2024-01-05T12:34:56Z [12:34:56] [Server thread/INFO]: Done
LineText(l) ==
  (IF l.stamp THEN <<"2024-01-05T12:34:56Z", " ">> ELSE <<>>)
  \o (IF l.time THEN <<"[", "12:34:56", "]", " ">> ELSE <<>>)
  \o (IF l.thread # "" /\ l.level # "" THEN <<"[", l.thread, "/", l.level, "]", ":", " ">>
      ELSE IF l.level # "" THEN <<"[", l.level, "]", ":", " ">>
      ELSE IF l.thread # "" THEN <<"[", l.thread, "]", ":", " ">>
      ELSE <<>>)
  \o l.msg

\* No line parsed yet.
NotParsed == [raw |-> <<>>, timestamp |-> "", level |-> "", thread |-> <<>>, message |-> <<>>]

InitParser ==
  /\ logLine = [stamp |-> FALSE, time |-> FALSE, thread |-> "", level |-> "",
                msg |-> <<"Done">>]
  /\ parsed = NotParsed

\* The least element of a non-empty set of positions.
First(ps) == CHOOSE i \in ps : \A j \in ps : i <= j

\* /\[(INFO|WARN|ERROR|DEBUG|FATAL)\]/i: the places where a severity word stands between
\* an opening and a closing bracket.
LevelMatches(t) ==
  {i \in 1..(Len(t) - 2) : t[i] = "[" /\ ToUpperCase(t[i + 1]) \in Levels /\ t[i + 2] = "]"}

\* /\[([^\]\/]+)\/[^\]]+\]/ matches at i with the label ending at j: an opening bracket,
\* tokens that are neither "]" nor "/", a slash, at least one token that is not "]",
\* then "]".
ThreadMatches(t) ==
  {m \in (1..Len(t)) \X (1..Len(t)) :
     /\ t[m[1]] = "["
     /\ m[2] > m[1]
     /\ \A k \in (m[1] + 1)..m[2] : t[k] \notin {"]", "/"}
     /\ m[2] + 2 <= Len(t)
     /\ t[m[2] + 1] = "/"
     /\ t[m[2] + 2] # "]"
     /\ \E e \in (m[2] + 3)..Len(t) : t[e] = "]"}

\* /\]:\s*(.*)$/: the places where "]" is followed by ":".
MessageMatches(t) == {i \in 1..(Len(t) - 1) : t[i] = "]" /\ t[i + 1] = ":"}

RECURSIVE SkipSpace(_)
SkipSpace(t) == IF t # <<>> /\ t[1] = " " THEN SkipSpace(Tail(t)) ELSE t

\* _parseLine(line): raw, the timestamp in front or the time of the call, the severity
\* of levelMatch or INFO, the label of threadMatch or null, the text of messageMatch or
\* the line.
ParseLine(t) ==
  [raw |-> t,
   timestamp |-> IF t # <<>> /\ t[1] = "2024-01-05T12:34:56Z" THEN t[1] ELSE "now",
   level |-> IF LevelMatches(t) # {}
             THEN ToUpperCase(t[First(LevelMatches(t)) + 1])
             ELSE "INFO",
   thread |-> IF ThreadMatches(t) # {}
              THEN LET m == CHOOSE m \in ThreadMatches(t) :
                              \A o \in ThreadMatches(t) : m[1] <= o[1]
                   IN SubSeq(t, m[1] + 1, m[2])
              ELSE <<"null">>,
   message |-> IF MessageMatches(t) # {}
               THEN SkipSpace(SubSeq(t, First(MessageMatches(t)) + 2, Len(t)))
               ELSE t]

\* The 'data' handler or _parseLogBuffer parses the line.
ParseLogLine ==
  /\ parsed' = ParseLine(LineText(logLine))
  /\ UNCHANGED <<logLine, rvars, wvars, ivars, mvars, bvars, cvars, svars, lvars, tvars,
                 kvars, hvars, gvars>>

\* ------------------------------------------------------------ console:command
\* The clock advances in steps of half a window.
ClockStep == WindowMs \div 2

InitLimiter ==
  /\ clock = 0
  /\ window = <<>>
  /\ passes = <<>>
  /\ refused = FALSE
  /\ awaiting = 0
  /\ forwarded = 0

\* check(key) that lets every request pass.
CheckUnlimited(win, at) ==
  [pass |-> TRUE, window |-> Append(SelectSeq(win, LAMBDA t : at - t < WindowMs), at)]

\* consoleLimiter.check('console') at Date.now() = at: the timestamps younger than 1000 ms
\* are the recent ones; with maxPerSecond of them the request is refused and the map is left
\* as it is, else the timestamp is added to the recent ones and they are stored.
Check(win, at) ==
  LET recent == SelectSeq(win, LAMBDA t : at - t < WindowMs)
  IN IF Len(recent) >= MaxPerSecond
     THEN [pass |-> FALSE, window |-> win]
     ELSE [pass |-> TRUE, window |-> Append(recent, at)]

\* Time passes.
ClockAdvances ==
  /\ clock < MaxClockSteps * ClockStep
  /\ clock' = clock + ClockStep
  /\ UNCHANGED <<window, passes, refused, awaiting, forwarded, rvars, wvars, ivars, mvars,
                 bvars, cvars, svars, lvars, tvars, evars, hvars, gvars>>

\* console:command with a command that is valid or not: the limiter is asked first and a
\* refused request throws; then the command is validated, and a valid one awaits
\* ensureRcon().
ConsoleCommand(valid) ==
  /\ awaiting < MaxAwaiting
  /\ LET res == Check(window, clock)
     IN /\ window' = res.window
        /\ refused' = ~res.pass
        /\ passes' = IF res.pass THEN Append(passes, clock) ELSE passes
        /\ awaiting' = IF res.pass /\ valid THEN awaiting + 1 ELSE awaiting
  /\ UNCHANGED <<clock, forwarded, rvars, wvars, ivars, mvars, bvars, cvars, svars, lvars,
                 tvars, evars, hvars, gvars>>

\* await ensureRcon() settles: connected, the command is logged and handed to
\* rconClient.send(cmd); not connected, the handler throws.
ConsoleEnsured(connects) ==
  /\ awaiting > 0
  /\ awaiting' = awaiting - 1
  /\ forwarded' = IF connects THEN forwarded + 1 ELSE forwarded
  /\ UNCHANGED <<clock, window, passes, refused, rvars, wvars, ivars, mvars, bvars, cvars,
                 svars, lvars, tvars, evars, hvars, gvars>>

ManagerSteps ==
  \/ \E p \in FollowCalls : StartFollowing(p)
  \/ \E p \in FollowCalls : \E ok \in BOOLEAN : FollowGotContainer(p, ok)
  \/ \E p \in FollowCalls : \E ok \in BOOLEAN : FollowGotStream(p, ok)
  \/ \E s \in 1..MaxStreams : StreamEnds(s)
  \/ \E q \in PollCalls : StartPolling(q)
  \/ \E q \in PollCalls : \E ok \in BOOLEAN : \E raw \in Answers : FirstPollSettles(q, ok, raw)
  \/ \E t \in 1..MaxTimers : TimerTick(t)
  \/ \E i \in 1..(MaxInflight + MaxPollCalls) : \E ok \in BOOLEAN : \E raw \in Answers :
       TickSettles(i, ok, raw)

(***************************************************************************)
(* The lifecycle handlers of electron/ipc-handlers: server:start,          *)
(* server:stop, server:status and server:wait-ready, one invocation of     *)
(* each at a time, interleaved at their awaits. The container is the one   *)
(* of the readiness model (envRunning). Inside server:wait-ready the call  *)
(* of waitForReady is taken by its outcomes, and the session object the    *)
(* handlers hold is the RCON session above.                                *)
(***************************************************************************)
Ic == [serverState |-> serverState, rconClient |-> rconClient, following |-> following,
       polling |-> polling, hStart |-> hStart, hStop |-> hStop, hWait |-> hWait,
       hStatus |-> hStatus, isRunning |-> isRunning, stopSince |-> stopSince]

SetIc(i) ==
  /\ serverState' = i.serverState
  /\ rconClient' = i.rconClient
  /\ following' = i.following
  /\ polling' = i.polling
  /\ hStart' = i.hStart
  /\ hStop' = i.hStop
  /\ hWait' = i.hWait
  /\ hStatus' = i.hStatus
  /\ isRunning' = i.isRunning
  /\ stopSince' = i.stopSince

InitIpc ==
  /\ serverState = "stopped"
  /\ rconClient = FALSE
  /\ following = FALSE
  /\ polling = FALSE
  /\ hStart = "idle"
  /\ hStop = "idle"
  /\ hWait = "idle"
  /\ hStatus = "idle"
  /\ isRunning = [h \in {"status", "wait"} |-> FALSE]
  /\ stopSince = FALSE

\* broadcastServerStatus(status)
BroadcastServerStatus(i, status) == [i EXCEPT !.serverState = status]

\* new RconClient(...): a session as its constructor leaves it. The connections of
\* the object it replaces are no longer this session's.
NewRconClient(r) ==
  [r EXCEPT !.connected = FALSE, !.reconnecting = FALSE, !.processing = FALSE,
            !.client = 0, !.queue = <<>>, !.heartbeat = FALSE, !.conns = {}, !.nconn = 0,
            !.wire = [c \in ConnIds |-> <<>>],
            !.task = [t \in TaskIds |-> IdleTask], !.dpc = "idle", !.dconn = 0]

\* --- server:start
ServerStart ==
  /\ hStart = "idle"
  /\ SetIc([BroadcastServerStatus(Ic, "starting") EXCEPT !.hStart = "log", !.stopSince = FALSE])
  /\ UNCHANGED <<rvars, envRunning, wrest, xvars>>

\* await eventLogger.log(...) resolves: log() never throws. compose.up() is called.
StartLogged ==
  /\ hStart = "log"
  /\ SetIc([Ic EXCEPT !.hStart = "up"])
  /\ UNCHANGED <<rvars, envRunning, wrest, xvars>>

\* compose.up() settles: docker exits with code 0 and the container runs, or it throws.
ComposeUp(ok) ==
  /\ hStart = "up"
  /\ IF ok
     THEN SetIc([Ic EXCEPT !.hStart = "env"]) /\ envRunning' = TRUE
     ELSE SetIc([BroadcastServerStatus(Ic, "stopped") EXCEPT !.hStart = "idle"])
          /\ UNCHANGED envRunning
  /\ UNCHANGED <<rvars, wrest, xvars>>

\* envManager.get('RCON_PASSWORD') settles: a password, none, or an exception.
EnvGot(res) ==
  /\ hStart = "env"
  /\ IF res = "password"
     THEN SetIc([Ic EXCEPT !.hStart = "idle", !.rconClient = TRUE]) /\ SetRc(NewRconClient(Rc))
     ELSE IF res = "none"
     THEN SetIc([Ic EXCEPT !.hStart = "idle"]) /\ UNCHANGED rvars
     ELSE SetIc([BroadcastServerStatus(Ic, "stopped") EXCEPT !.hStart = "idle"])
          /\ UNCHANGED rvars
  /\ UNCHANGED <<envRunning, wrest, xvars>>

\* --- server:stop
\* Where server:stop is after logsManager.stopFollowing() and statsManager.stopPolling():
\* at await eventLogger.log.
StopPollers(i) == [i EXCEPT !.hStop = "log"]

\* What server:stop leaves alone in the managers when it stops them, and when it does not.
stopFrame == <<fcall, pcall, inflight, listeners, lastSample>>

\* A disconnect() that has no connection to end awaits nothing: the handler goes on to
\* its next await before any other handler or event runs.
ServerStop ==
  /\ hStop = "idle"
  /\ dpc = "idle"
  /\ LET i == [BroadcastServerStatus(Ic, "stopping") EXCEPT !.stopSince = TRUE]
     IN /\ serverState' = i.serverState
        /\ stopSince' = i.stopSince
        /\ IF rconClient /\ DisconnectCall(Rc).dpc = "ending"
           THEN /\ hStop' = "disconnect"
                /\ SetRc(DisconnectCall(Rc))
                /\ UNCHANGED <<rconClient, following, polling, stream, streams,
                               pollInterval, timers>>
           ELSE /\ hStop' = StopPollers(i).hStop
                /\ StopFollowing
                /\ StopPolling
                /\ rconClient' = FALSE
                /\ IF rconClient THEN SetRc(DisconnectCall(Rc)) ELSE UNCHANGED rvars
  /\ logPhase' = "stopping"
  /\ statPhase' = "stopping"
  /\ UNCHANGED <<hStart, hWait, hStatus, isRunning, stopFrame>>
  /\ UNCHANGED <<envRunning, wrest, bvars, cvars, svars, yvars>>

\* await rconClient.disconnect() resolves.
StopDisconnected ==
  /\ hStop = "disconnect"
  /\ dpc = "idle"
  /\ rconClient' = FALSE
  /\ hStop' = StopPollers(Ic).hStop
  /\ StopFollowing
  /\ StopPolling
  /\ UNCHANGED <<serverState, hStart, hWait, hStatus, isRunning, stopSince, stopFrame,
                 logPhase, statPhase>>
  /\ UNCHANGED <<rvars, envRunning, wrest, bvars, cvars, svars, yvars>>

StopLogged ==
  /\ hStop = "log"
  /\ SetIc([Ic EXCEPT !.hStop = "down"])
  /\ UNCHANGED <<rvars, envRunning, wrest, xvars>>

\* server:stop returns: following and polling count as stopped from here on, unless
\* they were started again meanwhile.
Quiet(phase) == IF phase = "stopping" THEN "quiet" ELSE phase

\* compose.down() settles: the container is gone, or docker failed and the handler throws.
ComposeDown(ok) ==
  /\ hStop = "down"
  /\ IF ok
     THEN /\ SetIc([BroadcastServerStatus(Ic, "stopped") EXCEPT !.hStop = "idle"])
          /\ envRunning' = FALSE
          /\ logPhase' = Quiet(logPhase)
          /\ statPhase' = Quiet(statPhase)
     ELSE /\ SetIc([Ic EXCEPT !.hStop = "idle"])
          /\ UNCHANGED <<envRunning, logPhase, statPhase>>
  /\ UNCHANGED <<stream, streams, pollInterval, timers, stopFrame>>
  /\ UNCHANGED <<rvars, wrest, bvars, cvars, svars, yvars>>

\* --- server:status
ServerStatus ==
  /\ hStatus = "idle"
  /\ SetIc([Ic EXCEPT !.hStatus = "isRunning"])
  /\ UNCHANGED <<rvars, envRunning, wrest, xvars>>

\* docker compose ps looks at the container; false as well when the command fails.
StatusSamples(ok) ==
  /\ hStatus = "isRunning"
  /\ SetIc([Ic EXCEPT !.hStatus = "resume", !.isRunning["status"] = envRunning /\ ok])
  /\ UNCHANGED <<rvars, envRunning, wrest, xvars>>

\* The handler returns {isRunning, state: serverState}; its local goes out of scope.
StatusReturns(i) == [i EXCEPT !.hStatus = "idle", !.isRunning["status"] = FALSE]

\* The handler resumes with what the command saw.
StatusBranch(i) ==
  LET seen == i.isRunning["status"]
  IN IF seen /\ i.serverState = "starting" THEN [i EXCEPT !.hStatus = "checkStatus"]
     ELSE IF seen /\ i.serverState # "running" /\ i.serverState # "starting"
     THEN StatusReturns([i EXCEPT !.serverState = "running"])
     ELSE IF ~seen /\ i.serverState # "stopped"
     THEN StatusReturns([i EXCEPT !.serverState = "stopped"])
     ELSE StatusReturns(i)

StatusResumes ==
  /\ hStatus = "resume"
  /\ SetIc(StatusBranch(Ic))
  /\ UNCHANGED <<rvars, envRunning, wrest, xvars>>

\* readinessChecker.checkStatus() settles; an exception is swallowed like fullyReady = false.
StatusChecked(fullyReady) ==
  /\ hStatus = "checkStatus"
  /\ SetIc(StatusReturns(IF fullyReady THEN BroadcastServerStatus(Ic, "running") ELSE Ic))
  /\ UNCHANGED <<rvars, envRunning, wrest, xvars>>

\* --- server:wait-ready
WaitConnectMaxAttempts == 5

\* The caller of connectWithRetry that server:wait-ready is.
WaitCaller == 1

ServerWaitReady ==
  /\ hWait = "idle"
  /\ SetIc([Ic EXCEPT !.hWait = "waitForReady"])
  /\ UNCHANGED <<rvars, envRunning, wrest, xvars>>

\* if (result.ready) broadcastServerStatus('running'); await eventLogger.log(...)
\* WaitReadyBroadcast without the broadcast.
WaitReadyNoBroadcast(i) == [i EXCEPT !.hWait = "log"]

WaitReadyBroadcast(i) == [BroadcastServerStatus(i, "running") EXCEPT !.hWait = "log"]

\* waitForReady resolves with {ready: true, rconReady}.
WaitReadyResolves(rr) ==
  /\ hWait = "waitForReady"
  /\ IF rr /\ rconClient /\ ~connected
     THEN /\ ~Busy(task[WaitCaller])
          /\ SetIc([Ic EXCEPT !.hWait = "connect"])
          /\ SetRc(StartTask(Rc, WaitCaller, WaitConnectMaxAttempts))
     ELSE SetIc(WaitReadyBroadcast(Ic)) /\ UNCHANGED rvars
  /\ UNCHANGED <<envRunning, wrest, xvars>>

\* await rconClient.connectWithRetry(...) settles; its exception is caught and logged.
WaitReadyConnected ==
  /\ hWait = "connect"
  /\ ~Busy(task[WaitCaller])
  /\ SetIc(WaitReadyBroadcast(Ic))
  /\ UNCHANGED <<rvars, envRunning, wrest, xvars>>

WaitReadyLogged ==
  /\ hWait = "log"
  /\ SetIc([Ic EXCEPT !.hWait = "idle"])
  /\ UNCHANGED <<rvars, envRunning, wrest, xvars>>

\* waitForReady throws its timeout error: the catch block awaits compose.isRunning().
WaitReadyRejects ==
  /\ hWait = "waitForReady"
  /\ SetIc([Ic EXCEPT !.hWait = "isRunning"])
  /\ UNCHANGED <<rvars, envRunning, wrest, xvars>>

WaitCatchSamples(ok) ==
  /\ hWait = "isRunning"
  /\ SetIc([Ic EXCEPT !.hWait = "catch", !.isRunning["wait"] = envRunning /\ ok])
  /\ UNCHANGED <<rvars, envRunning, wrest, xvars>>

WaitCatchResumes ==
  /\ hWait = "catch"
  /\ SetIc([(IF isRunning["wait"] THEN BroadcastServerStatus(Ic, "running") ELSE Ic)
              EXCEPT !.hWait = "idle", !.isRunning["wait"] = FALSE])
  /\ UNCHANGED <<rvars, envRunning, wrest, xvars>>

\* --- the environment of the handlers
\* The server process exits on its own.
ContainerExits ==
  /\ envRunning
  /\ envRunning' = FALSE
  /\ UNCHANGED <<rvars, ivars, wrest, xvars>>

\* The attempts of the connectWithRetry that server:wait-ready awaits, and the close
\* of the connection that the disconnect() of server:stop ends.
SessionSteps ==
  \/ ConnectSucceeds(WaitCaller)
  \/ ConnectFails(WaitCaller)
  \/ SleepEnds(WaitCaller)
  \/ dpc = "ending" /\ ConnectionEnds(dconn)

NextLife ==
  \/ ServerStart
  \/ StartLogged
  \/ \E ok \in BOOLEAN : ComposeUp(ok)
  \/ \E res \in {"password", "none", "throws"} : EnvGot(res)
  \/ ServerStop
  \/ StopDisconnected
  \/ StopLogged
  \/ \E ok \in BOOLEAN : ComposeDown(ok)
  \/ ServerStatus
  \/ \E ok \in BOOLEAN : StatusSamples(ok)
  \/ StatusResumes
  \/ \E fullyReady \in BOOLEAN : StatusChecked(fullyReady)
  \/ ServerWaitReady
  \/ \E rr \in BOOLEAN : WaitReadyResolves(rr)
  \/ WaitReadyConnected
  \/ WaitReadyLogged
  \/ WaitReadyRejects
  \/ \E ok \in BOOLEAN : WaitCatchSamples(ok)
  \/ WaitCatchResumes
  \/ ContainerExits
  \/ SessionSteps

\* ------------------------------------------------------ backup manager
BackupCalls == 1..MaxBackupCalls
Names == 1..MaxNames
Dates == 1..MaxDate
BytesPerMB == 1024 * 1024
Sizes == {k * BytesPerMB : k \in 0..MaxArchiveMB}

\* options.maxBackups || 10, options.maxSizeMB || 5000: 0 is an option that is 0 or
\* not given.
OrDefault(option, default) == IF option = 0 THEN default ELSE option

\* A call that has not been made.
IdleCall ==
  [pc |-> "idle", kind |-> "none", stopServer |-> FALSE, applyRetention |-> FALSE,
   autoRestart |-> FALSE, wasRunning |-> FALSE, out |-> "none"]

\* new BackupManager(compose, paths, options) beside a data volume that holds a world
\* and a backups volume that holds vol.
InitBackup(optMaxBackups, optMaxSizeMB, vol) ==
  /\ backupRunning = FALSE
  /\ bcall = [c \in BackupCalls |-> IdleCall]
  /\ world = 1
  /\ worldOld = 0
  /\ volume = vol
  /\ maxBackups = OrDefault(optMaxBackups, DefaultMaxBackups)
  /\ maxSizeMB = OrDefault(optMaxSizeMB, DefaultMaxSizeMB)
  /\ rpc = "idle"
  /\ rcaller = 0
  /\ listed = <<>>
  /\ sortedBackups = <<>>
  /\ deleted = <<>>
  /\ totalSize = 0

\* initializeCore(): new BackupManager(compose, paths), and no archive yet.
InitBackupManager == InitBackup(0, 0, <<>>)

\* A call that has ended: how it ended is kept and, of one that returned, what it was
\* and what its worker did; its options and locals are gone.
Return(call, how) ==
  IF how = "returned"
  THEN [IdleCall EXCEPT !.pc = how, !.kind = call.kind, !.out = call.out]
  ELSE [IdleCall EXCEPT !.pc = how]

\* The states in which a call is not running: not made, or how it ended.
Ended == {"idle", "returned", "threw", "rejected"}

retvars == <<rpc, rcaller, listed, sortedBackups, deleted, totalSize>>
setvars == <<maxBackups, maxSizeMB>>
datavars == <<world, worldOld>>
backupFrame == <<rvars, wrest, ivars, mvars, setvars, cvars, svars, yvars>>

\* --- listBackups()
\* ls -la /backups/*.tar*: one line per archive, in the order of the names.
RECURSIVE Ls(_, _)
Ls(vol, S) ==
  IF S = {} THEN <<>>
  ELSE LET n == CHOOSE m \in S : \A k \in S : m <= k
       IN <<[name |-> n, date |-> vol[n].date, size |-> vol[n].size]>> \o Ls(vol, S \ {n})

\* x put into s, which sort() has ordered by sign * (a.date - b.date): after every
\* element that does not compare greater than it (Array.prototype.sort is stable).
Ins(x, s, sign) ==
  LET k == Cardinality({i \in 1..Len(s) : sign * (s[i].date - x.date) <= 0})
  IN SubSeq(s, 1, k) \o <<x>> \o SubSeq(s, k + 1, Len(s))

\* s.sort((a, b) => sign * (a.date - b.date))
RECURSIVE Sort(_, _)
Sort(s, sign) ==
  IF s = <<>> THEN <<>>
  ELSE Ins(s[Len(s)], Sort(SubSeq(s, 1, Len(s) - 1), sign), sign)

\* listBackups(): the lines parsed, newest first.
ListBackups(vol) == Sort(Ls(vol, DOMAIN vol), -1)

\* rm -f /backups/<name>
Rm(vol, n) == [m \in DOMAIN vol \ {n} |-> vol[m]]

\* --- applyRetention()
\* sortedBackups.reduce((sum, b) => sum + b.size, 0)
RECURSIVE SumSizes(_)
SumSizes(s) == IF s = <<>> THEN 0 ELSE s[1].size + SumSizes(Tail(s))

\* total > mb * 1024 * 1024, computed without the product.
Exceeds(total, mb) ==
  \/ total \div BytesPerMB > mb
  \/ total \div BytesPerMB = mb /\ total % BytesPerMB > 0

\* applyRetention() returns {deleted: del}, or throws, having listed lst. Its other
\* locals are gone. The createBackup() that awaits it drops what it returns, emits
\* 'complete' and returns, or throws, through its finally.
RetentionEnds(how, lst, del) ==
  /\ sortedBackups' = <<>>
  /\ totalSize' = 0
  /\ IF rcaller = 0
     THEN /\ rpc' = how
          /\ listed' = lst
          /\ deleted' = del
          /\ UNCHANGED <<bcall, backupRunning>>
     ELSE /\ rpc' = "idle"
          /\ listed' = <<>>
          /\ deleted' = <<>>
          /\ bcall' = [bcall EXCEPT ![rcaller] = Return(bcall[rcaller], how)]
          /\ backupRunning' = FALSE

\* A size loop that goes on as long as the size exceeds the bound.
SizeLoopToEmpty(lst, sb, del, total) ==
  IF Exceeds(total, maxSizeMB) /\ Len(sb) > 0
  THEN /\ rpc' = "size"
       /\ listed' = lst
       /\ sortedBackups' = sb
       /\ deleted' = del
       /\ totalSize' = total
       /\ UNCHANGED <<bcall, backupRunning>>
  ELSE RetentionEnds("returned", lst, del)

\* The test of the size loop with sb left, total as their size and del deleted: the
\* next delete is awaited, or applyRetention() returns.
SizeLoop(lst, sb, del, total) ==
  IF Exceeds(total, maxSizeMB) /\ Len(sb) > 1
  THEN /\ rpc' = "size"
       /\ listed' = lst
       /\ sortedBackups' = sb
       /\ deleted' = del
       /\ totalSize' = total
       /\ UNCHANGED <<bcall, backupRunning>>
  ELSE RetentionEnds("returned", lst, del)

\* The test of the count loop with sb left and del deleted: the next delete is awaited,
\* or the size loop is entered.
CountLoop(lst, sb, del) ==
  IF Len(sb) > maxBackups
  THEN /\ rpc' = "count"
       /\ listed' = lst
       /\ sortedBackups' = sb
       /\ deleted' = del
       /\ UNCHANGED <<totalSize, bcall, backupRunning>>
  ELSE SizeLoop(lst, sb, del, SumSizes(sb))

\* applyRetention() is called and awaits helper.listBackups().
StartRetention(c) ==
  /\ rpc \in {"idle", "returned", "threw"}
  /\ rpc' = "list"
  /\ rcaller' = c
  /\ listed' = <<>>
  /\ sortedBackups' = <<>>
  /\ deleted' = <<>>
  /\ totalSize' = 0

\* applyRetention() called by another caller than createBackup().
ApplyRetention ==
  /\ StartRetention(0)
  /\ UNCHANGED <<backupRunning, bcall, datavars, volume, envRunning, backupFrame>>

\* helper.listBackups() settles, and [...backups].sort(...) puts the oldest first.
RetentionListed(ok) ==
  /\ rpc = "list"
  /\ IF ok
     THEN LET backups == ListBackups(volume)
          IN CountLoop(backups, Sort(backups, 1), <<>>)
     ELSE RetentionEnds("threw", <<>>, <<>>)
  /\ UNCHANGED <<rcaller, datavars, volume, envRunning, backupFrame>>

\* A count loop that takes the newest: sortedBackups.pop().
CountDeletesNewest(ok) ==
  /\ rpc = "count"
  /\ LET last == sortedBackups[Len(sortedBackups)]
     IN IF ok
        THEN /\ volume' = Rm(volume, last.name)
             /\ CountLoop(listed, SubSeq(sortedBackups, 1, Len(sortedBackups) - 1),
                          Append(deleted, last.name))
        ELSE /\ RetentionEnds("threw", listed, deleted)
             /\ UNCHANGED volume
  /\ UNCHANGED <<rcaller, datavars, envRunning, backupFrame>>

\* The count loop: sortedBackups.shift(), and helper.deleteBackup(oldest.name) settles.
CountDeletes(ok) ==
  /\ rpc = "count"
  /\ IF ok
     THEN /\ volume' = Rm(volume, Head(sortedBackups).name)
          /\ CountLoop(listed, Tail(sortedBackups), Append(deleted, Head(sortedBackups).name))
     ELSE /\ RetentionEnds("threw", listed, deleted)
          /\ UNCHANGED volume
  /\ UNCHANGED <<rcaller, datavars, envRunning, backupFrame>>

\* The size loop: the same, and totalSize -= oldest.size.
SizeDeletes(ok) ==
  /\ rpc = "size"
  /\ IF ok
     THEN /\ volume' = Rm(volume, Head(sortedBackups).name)
          /\ SizeLoop(listed, Tail(sortedBackups),
                      Append(deleted, Head(sortedBackups).name),
                      totalSize - Head(sortedBackups).size)
     ELSE /\ RetentionEnds("threw", listed, deleted)
          /\ UNCHANGED volume
  /\ UNCHANGED <<rcaller, datavars, envRunning, backupFrame>>

\* --- createBackup(), restoreBackup()
\* Proceed with a flag that is cleared only when the call returns.
ProceedNoFinally(c, call, at) ==
  /\ bcall' = [bcall EXCEPT ![c] = IF at \in Ended THEN Return(call, at)
                                                    ELSE [call EXCEPT !.pc = at]]
  /\ backupRunning' = IF at = "returned" THEN FALSE ELSE backupRunning
  /\ IF at = "retention" THEN StartRetention(c) ELSE UNCHANGED retvars

\* The call c goes on as call, at `at'; when that is the end of the call, finally
\* clears the flag; when that is applyRetention(), it is called.
Proceed(c, call, at) ==
  /\ bcall' = [bcall EXCEPT ![c] = IF at \in Ended THEN Return(call, at)
                                                    ELSE [call EXCEPT !.pc = at]]
  /\ backupRunning' = IF at \in Ended THEN FALSE ELSE backupRunning
  /\ IF at = "retention" THEN StartRetention(c) ELSE UNCHANGED retvars

\* Where createBackup() goes on after helper.createBackup() and after compose.up(),
\* and restoreBackup() after helper.restoreBackup().
CreateAfterUp(call) == IF call.applyRetention THEN "retention" ELSE "returned"

CreateAfterHelper(call) ==
  IF call.stopServer /\ call.wasRunning THEN "up" ELSE CreateAfterUp(call)

RestoreAfterHelper(call) ==
  IF call.autoRestart \/ call.wasRunning THEN "up" ELSE "returned"

\* createBackup(name, {stopServer, applyRetention}) up to its first await.
CreateBackupUnguarded(c, stop, retain) ==
  /\ bcall[c].pc \in Ended
  /\ bcall' = [bcall EXCEPT ![c] = [IdleCall EXCEPT !.pc = IF stop THEN "isRunning" ELSE "helper",
                                                   !.kind = "create", !.stopServer = stop,
                                                   !.applyRetention = retain]]
  /\ backupRunning' = TRUE
  /\ UNCHANGED <<retvars, datavars, volume, envRunning, backupFrame>>

CreateBackup(c, stop, retain) ==
  /\ bcall[c].pc \in Ended
  /\ IF backupRunning
     THEN /\ bcall' = [bcall EXCEPT ![c] = Return(IdleCall, "rejected")]
          /\ UNCHANGED backupRunning
     ELSE /\ bcall' = [bcall EXCEPT ![c] = [IdleCall EXCEPT
                         !.pc = IF stop THEN "isRunning" ELSE "helper",
                         !.kind = "create", !.stopServer = stop, !.applyRetention = retain]]
          /\ backupRunning' = TRUE
  /\ UNCHANGED <<retvars, datavars, volume, envRunning, backupFrame>>

\* restoreBackup(filename, {autoRestart}) up to its first await.
RestoreBackup(c, restart) ==
  /\ bcall[c].pc \in Ended
  /\ IF backupRunning
     THEN /\ bcall' = [bcall EXCEPT ![c] = Return(IdleCall, "rejected")]
          /\ UNCHANGED backupRunning
     ELSE /\ bcall' = [bcall EXCEPT ![c] = [IdleCall EXCEPT
                         !.pc = "isRunning", !.kind = "restore", !.autoRestart = restart]]
          /\ backupRunning' = TRUE
  /\ UNCHANGED <<retvars, datavars, volume, envRunning, backupFrame>>

\* compose.isRunning() settles: what the container is, or false when the query failed.
\* A running workload is stopped: compose.down() is awaited.
BackupIsRunning(c, ok) ==
  /\ bcall[c].pc = "isRunning"
  /\ LET call == [bcall[c] EXCEPT !.wasRunning = ok /\ envRunning]
     IN Proceed(c, call, IF call.wasRunning THEN "down" ELSE "helper")
  /\ UNCHANGED <<datavars, volume, envRunning, backupFrame>>

\* compose.down() settles.
BackupDown(c, ok) ==
  /\ bcall[c].pc = "down"
  /\ IF ok
     THEN Proceed(c, bcall[c], "helper") /\ envRunning' = FALSE
     ELSE Proceed(c, bcall[c], "threw") /\ UNCHANGED envRunning
  /\ UNCHANGED <<datavars, volume, backupFrame>>

\* The dates a file name made now can carry: none before that of an archive made earlier.
NewDates == {d \in Dates : \A n \in DOMAIN volume : volume[n].date <= d}

\* The first date later than that of every archive, as long as the file names have one.
LaterDates == {d \in Dates : \A n \in DOMAIN volume : volume[n].date < d} \cup {MaxDate}
NextDate == CHOOSE d \in LaterDates : \A e \in LaterDates : d <= e

\* helper.createBackup() settles. Its worker has made the archive ("archived"), or tar
\* has failed and the shell has exited with its code ("failed"); or _runHelper() has
\* thrown before the worker ran ("threw").
CreateHelperExits(c, outcome, d, sz) ==
  /\ bcall[c].pc = "helper"
  /\ bcall[c].kind = "create"
  /\ IF outcome = "archived"
     THEN /\ world # 0
          /\ Cardinality(DOMAIN volume) < MaxNames
          /\ d \in NewDates
          /\ LET n == Fresh(DOMAIN volume)
             IN volume' = [m \in DOMAIN volume \cup {n} |->
                             IF m = n THEN [date |-> d, size |-> sz] ELSE volume[m]]
     ELSE UNCHANGED volume
  /\ IF outcome = "threw"
     THEN Proceed(c, bcall[c], "threw")
     ELSE LET call == [bcall[c] EXCEPT !.out = outcome]
          IN Proceed(c, call, CreateAfterHelper(call))
  /\ UNCHANGED <<datavars, envRunning, backupFrame>>

\* helper.restoreBackup() settles. Its worker has run
\*   rm -rf world.old && mv world world.old; tar xzf <archive> && echo RESTORED
\* and tar has extracted the archive ("restored"), a part of it ("partial") or nothing
\* ("nothing"); or _runHelper() has thrown before the worker ran ("threw").
RestoreHelperExits(c, outcome) ==
  /\ bcall[c].pc = "helper"
  /\ bcall[c].kind = "restore"
  /\ outcome = "restored" => DOMAIN volume # {}
  /\ IF outcome = "threw"
     THEN /\ Proceed(c, bcall[c], "threw")
          /\ UNCHANGED datavars
     ELSE /\ worldOld' = world
          /\ world' = IF outcome = "nothing" THEN 0 ELSE Fresh({world, worldOld} \ {0})
          /\ LET call == [bcall[c] EXCEPT !.out = outcome]
             IN Proceed(c, call, RestoreAfterHelper(call))
  /\ UNCHANGED <<volume, envRunning, backupFrame>>

\* compose.up() settles.
BackupUp(c, ok) ==
  /\ bcall[c].pc = "up"
  /\ IF ok
     THEN /\ envRunning' = TRUE
          /\ Proceed(c, bcall[c], IF bcall[c].kind = "create" THEN CreateAfterUp(bcall[c])
                                                               ELSE "returned")
     ELSE /\ UNCHANGED envRunning
          /\ Proceed(c, bcall[c], "threw")
  /\ UNCHANGED <<datavars, volume, backupFrame>>

CreateOutcomes == {"archived", "failed", "threw"}
RestoreOutcomes == {"restored", "partial", "nothing", "threw"}

\* ------------------------------------------------------ command layer
\* The characters of the strings: one that is a letter or a digit, the underscore and
\* the space.
Chars == {"a", "_", " "}

\* The strings of at most n characters.
Strings(n) == UNION {[1..l -> Chars] : l \in 0..n}

PlayerNames == Strings(MaxNameLen)
Reasons == {<<>>, <<"a">>}

InitCommands ==
  /\ passed = <<>>
  /\ player = <<>>

\* The k-th call of this.rcon.send(), by a method called with name.
Command(k, name) ==
  /\ cmd[k] = "new"
  /\ \A j \in Cmds : j < k => cmd[j] # "new"
  /\ player' = name
  /\ SetRc(SendCall(Rc, k))
  /\ UNCHANGED <<wvars, ivars, mvars, bvars, svars, yvars>>

\* reason ? `kick ${player} ${reason}` : `kick ${player}`
Kick(k, name, reason) ==
  /\ passed' = IF reason # <<>>
               THEN <<"k", "i", "c", "k", " ">> \o name \o <<" ">> \o reason
               ELSE <<"k", "i", "c", "k", " ">> \o name
  /\ Command(k, name)

\* reason ? `ban ${player} ${reason}` : `ban ${player}`
Ban(k, name, reason) ==
  /\ passed' = IF reason # <<>>
               THEN <<"b", "a", "n", " ">> \o name \o <<" ">> \o reason
               ELSE <<"b", "a", "n", " ">> \o name
  /\ Command(k, name)

\* `pardon ${player}`
Pardon(k, name) ==
  /\ passed' = <<"p", "a", "r", "d", "o", "n", " ">> \o name
  /\ Command(k, name)

\* `whitelist add ${player}`
WhitelistAdd(k, name) ==
  /\ passed' = <<"w", "h", "i", "t", "e", "l", "i", "s", "t", " ", "a", "d", "d", " ">> \o name
  /\ Command(k, name)

\* `whitelist remove ${player}`
WhitelistRemove(k, name) ==
  /\ passed' = <<"w", "h", "i", "t", "e", "l", "i", "s", "t", " ",
                 "r", "e", "m", "o", "v", "e", " ">> \o name
  /\ Command(k, name)

\* `op ${player}`
OpAdd(k, name) ==
  /\ passed' = <<"o", "p", " ">> \o name
  /\ Command(k, name)

\* `deop ${player}`
OpRemove(k, name) ==
  /\ passed' = <<"d", "e", "o", "p", " ">> \o name
  /\ Command(k, name)

\* ----------------------------------------------------------- getStats
\* getStats(): container.stats() has answered stats; the cpu of the sample.
GetStats ==
  /\ cpu' = CalculateCpu(stats)
  /\ UNCHANGED <<stats, rvars, wvars, ivars, mvars, bvars, cvars, yvars>>


\* --------------------------------------------------------- _runHelper
\* Every Docker call of _runHelper either answers or rejects; container.remove() too.
HelperCalls == 1..MaxHelperCalls

WorkerIds == 1..MaxWorkers

HelperEnded == {"returned", "threw"}

NoHelper == [pc |-> "idle", container |-> 0, failed |-> FALSE, removal |-> "none"]

InitHelper ==
  /\ hcall = [c \in HelperCalls |-> NoHelper]
  /\ workers = {}

helperFrame == <<rvars, wvars, ivars, mvars, bvars, cvars, svars, lvars, tvars, evars,
                 kvars, gvars>>

\* _runHelper(cmd, binds) is called: await this.ensureImage().
RunHelper(c) ==
  /\ hcall[c].pc \in {"idle"} \cup HelperEnded
  /\ hcall' = [hcall EXCEPT ![c] = [NoHelper EXCEPT !.pc = "image"]]
  /\ UNCHANGED <<workers, helperFrame>>

\* ensureImage() settles: a rejection leaves _runHelper before any container exists.
ImageEnsured(c, ok) ==
  /\ hcall[c].pc = "image"
  /\ hcall' = [hcall EXCEPT ![c].pc = IF ok THEN "create" ELSE "threw"]
  /\ UNCHANGED <<workers, helperFrame>>

\* docker.createContainer() settles; the try block is entered with the container.
ContainerCreated(c, ok) ==
  /\ hcall[c].pc = "create"
  /\ IF ok
       THEN /\ WorkerIds \ (workers \cup {hcall[d].container : d \in HelperCalls}) # {}
            /\ LET free == WorkerIds \ (workers \cup {hcall[d].container : d \in HelperCalls})
                   id == CHOOSE i \in free : \A j \in free : i <= j
               IN /\ workers' = workers \cup {id}
                  /\ hcall' = [hcall EXCEPT ![c].pc = "attach", ![c].container = id]
       ELSE /\ hcall' = [hcall EXCEPT ![c].pc = "threw"]
            /\ UNCHANGED workers
  /\ UNCHANGED helperFrame

\* As HelperAwait, with no finally block: a rejection leaves _runHelper at once.
HelperAwaitNoFinally(c, at, next, ok) ==
  /\ hcall[c].pc = at
  /\ hcall' = [hcall EXCEPT ![c].pc = IF ok THEN next ELSE "threw",
                            ![c].failed = ~ok]
  /\ UNCHANGED <<workers, helperFrame>>

\* One await of the try block settles: it goes on to the next one, or the rejection
\* leaves the block through finally.
HelperAwait(c, at, next, ok) ==
  /\ hcall[c].pc = at
  /\ hcall' = [hcall EXCEPT ![c].pc = IF ok THEN next ELSE "remove",
                            ![c].failed = ~ok]
  /\ UNCHANGED <<workers, helperFrame>>

\* container.attach() settles.
Attached(c, ok) ==
  /\ HelperAwait(c, "attach", "start", ok)

\* container.start() settles.
Started(c, ok) ==
  /\ HelperAwait(c, "start", "wait", ok)

\* container.wait() settles.
Waited(c, ok) ==
  /\ HelperAwait(c, "wait", "flush", ok)

\* The 100 ms given to the stream have passed: return output, through finally.
Flushed(c) ==
  /\ HelperAwait(c, "flush", "remove", TRUE)

\* finally: container.remove({ force: true }) settles, and a rejection is ignored;
\* then _runHelper returns the output or throws what the try block threw.
ContainerRemoved(c, ok) ==
  /\ hcall[c].pc = "remove"
  /\ workers' = IF ok THEN workers \ {hcall[c].container} ELSE workers
  /\ hcall' = [hcall EXCEPT ![c].pc = IF hcall[c].failed THEN "threw" ELSE "returned",
                            ![c].removal = IF ok THEN "removed" ELSE "rejected"]
  /\ UNCHANGED helperFrame

\* ------------------------------------------------------- EventLogger
\* The file system answers every call of _appendEntry; the events are numbered in the
\* order of their log() calls.
LogCalls == 1..MaxLogCalls

NoLog == [pc |-> "idle", entry |-> 0, entries |-> <<>>]

InitEvents ==
  /\ logFile = <<>>
  /\ ecall = [c \in LogCalls |-> NoLog]
  /\ logged = 0
  /\ returned = {}

eventFrame == <<rvars, wvars, ivars, mvars, bvars, cvars, svars, lvars, tvars, evars,
                kvars, hvars>>

\* entries.slice(-this.maxEntries) when entries.length > this.maxEntries.
Rotate(entries) ==
  IF Len(entries) > MaxEntries
    THEN SubSeq(entries, Len(entries) - MaxEntries + 1, Len(entries))
    ELSE entries

\* log(type, data): the entry is built, _appendEntry awaits fs.mkdir().
Log(c) ==
  /\ ecall[c].pc = "idle"
  /\ logged < MaxEvents
  /\ logged' = logged + 1
  /\ ecall' = [ecall EXCEPT ![c] = [pc |-> "mkdir", entry |-> logged + 1, entries |-> <<>>]]
  /\ UNCHANGED <<logFile, returned, eventFrame>>

\* fs.mkdir() has answered: _appendEntry awaits fs.readFile().
MkdirDone(c) ==
  /\ ecall[c].pc = "mkdir"
  /\ ecall' = [ecall EXCEPT ![c].pc = "read"]
  /\ UNCHANGED <<logFile, logged, returned, eventFrame>>

\* fs.readFile() has answered (no file reads as no entries): the entry is pushed, the
\* rotation applied, and _appendEntry awaits fs.writeFile().
ReadDone(c) ==
  /\ ecall[c].pc = "read"
  /\ ecall' = [ecall EXCEPT ![c].pc = "write",
                            ![c].entries = Rotate(Append(logFile, ecall[c].entry))]
  /\ UNCHANGED <<logFile, logged, returned, eventFrame>>

\* fs.writeFile() has answered: the file holds what this call wrote, log() returns.
WriteDone(c) ==
  /\ ecall[c].pc = "write"
  /\ logFile' = ecall[c].entries
  /\ returned' = returned \cup {ecall[c].entry}
  /\ ecall' = [ecall EXCEPT ![c] = NoLog]
  /\ UNCHANGED <<logged, eventFrame>>

\* The added components as constructed.
InitRest == InitLogs /\ InitReader /\ InitParser /\ InitLimiter /\ InitHelper /\ InitEvents

\* ----------------------------------------------------- specifications
NextRcon ==
  \/ \E k \in Cmds : Send(k)
  \/ \E c \in ConnIds : Response(c)
  \/ \E c \in ConnIds : \E i \in 1..MaxWire : RequestFails(c, i)
  \/ HeartbeatTick
  \/ \E t \in TaskIds : \E m \in 0..MaxExtAttempts : ConnectWithRetry(t, m)
  \/ \E t \in TaskIds : ConnectSucceeds(t)
  \/ \E t \in TaskIds : ConnectFails(t)
  \/ \E t \in TaskIds : SleepEnds(t)
  \/ \E c \in ConnIds : ConnectionEnds(c)
  \/ Disconnect

vars == <<rvars, wvars, ivars, xvars>>

\* The RCON session under its callers, its timers and its connections.
Init == InitRcon /\ ReadyIdle /\ InitIpc /\ InitManagers /\ InitBackupManager /\ InitCommands
        /\ InitStats /\ InitRest

Spec == Init /\ [][NextRcon]_vars

\* One waitForReady call against a changing workload. Every probe returns and every
\* timer fires, so the steps of the call are weakly fair; the workload's are not.
InitCheck == InitRcon /\ InitReady /\ InitIpc /\ InitManagers /\ InitBackupManager /\ InitCommands
        /\ InitStats /\ InitRest

SpecReady ==
  /\ InitCheck
  /\ [][NextReady]_vars
  /\ WF_vars(WaitSteps)

\* The lifecycle handlers invoked in any order against a container that docker starts
\* and stops and that may exit on its own.
SpecLife == Init /\ [][NextLife]_vars

\* server:start, server:wait-ready and server:stop against a session, a log follower and
\* a telemetry poller that are started and stopped at any moment.
NextStop ==
  \/ ServerStart
  \/ StartLogged
  \/ \E ok \in BOOLEAN : ComposeUp(ok)
  \/ \E res \in {"password", "none", "throws"} : EnvGot(res)
  \/ ServerStop
  \/ StopDisconnected
  \/ StopLogged
  \/ \E ok \in BOOLEAN : ComposeDown(ok)
  \/ ServerWaitReady
  \/ \E rr \in BOOLEAN : WaitReadyResolves(rr)
  \/ WaitReadyConnected
  \/ WaitReadyLogged
  \/ ConnectSucceeds(WaitCaller)
  \/ dpc = "ending" /\ ConnectionEnds(dconn)
  \/ StartFollowing(1)
  \/ \E ok \in BOOLEAN : FollowGotContainer(1, ok)
  \/ \E ok \in BOOLEAN : FollowGotStream(1, ok)
  \/ \E s \in 1..MaxStreams : StreamEnds(s)
  \/ StartPolling(1)
  \/ \E ok \in BOOLEAN : FirstPollSettles(1, ok, BusyAnswer)
  \/ \E t \in 1..MaxTimers : Ticks(inflight) = {} /\ TimerTick(t)
  \/ \E i \in 1..(MaxInflight + 1) : \E ok \in BOOLEAN : TickSettles(i, ok, BusyAnswer)

SpecStop == Init /\ [][NextStop]_vars

\* createBackup() and restoreBackup() called in any order by two callers, with every
\* outcome of their workers; the manager is constructed with small retention settings.
NextBackup ==
  \/ \E c \in BackupCalls : \E stop \in BOOLEAN : \E retain \in BOOLEAN :
       CreateBackup(c, stop, retain)
  \/ \E c \in BackupCalls : \E restart \in BOOLEAN : RestoreBackup(c, restart)
  \/ \E c \in BackupCalls : \E ok \in BOOLEAN : BackupIsRunning(c, ok)
  \/ \E c \in BackupCalls : \E ok \in BOOLEAN : BackupDown(c, ok)
  \/ \E c \in BackupCalls : \E outcome \in CreateOutcomes :
       CreateHelperExits(c, outcome, NextDate, MaxArchiveMB * BytesPerMB)
  \/ \E c \in BackupCalls : \E outcome \in RestoreOutcomes : RestoreHelperExits(c, outcome)
  \/ \E c \in BackupCalls : \E ok \in BOOLEAN : BackupUp(c, ok)
  \/ \E ok \in BOOLEAN : RetentionListed(ok)
  \/ \E ok \in BOOLEAN : CountDeletes(ok)
  \/ \E ok \in BOOLEAN : SizeDeletes(ok)

InitOrchestrator ==
  /\ InitRcon /\ ReadyIdle /\ InitIpc /\ InitManagers /\ InitCommands /\ InitStats /\ InitRest
  /\ InitBackup(MaxCountOption, MaxSizeOption, <<>>)

SpecBackup == InitOrchestrator /\ [][NextBackup]_vars

\* applyRetention() called on a manager constructed with any small options (0: not
\* given), on any backups volume. Every worker of listBackups() and deleteBackup()
\* exits, so the steps of applyRetention() are weakly fair.
RetentionSteps ==
  \/ \E ok \in BOOLEAN : RetentionListed(ok)
  \/ \E ok \in BOOLEAN : CountDeletes(ok)
  \/ \E ok \in BOOLEAN : SizeDeletes(ok)

NextRetention ==
  \/ ApplyRetention
  \/ \E ok \in BOOLEAN : RetentionListed(ok)
  \/ \E ok \in BOOLEAN : CountDeletes(ok)
  \/ \E ok \in BOOLEAN : SizeDeletes(ok)

Volumes == UNION {[S -> [date : Dates, size : Sizes]] : S \in SUBSET Names}

InitRetention ==
  /\ InitRcon /\ ReadyIdle /\ InitIpc /\ InitManagers /\ InitCommands /\ InitStats /\ InitRest
  /\ \E mb \in 0..MaxCountOption : \E ms \in 0..MaxSizeOption : \E vol \in Volumes :
       InitBackup(mb, ms, vol)

SpecRetention ==
  /\ InitRetention
  /\ [][NextRetention]_vars
  /\ WF_vars(RetentionSteps)

\* One caller of restoreBackup() beside server:start, with an archive to restore.
RestoreCaller == 1

NextRestore ==
  \/ \E restart \in BOOLEAN : RestoreBackup(RestoreCaller, restart)
  \/ \E ok \in BOOLEAN : BackupIsRunning(RestoreCaller, ok)
  \/ \E ok \in BOOLEAN : BackupDown(RestoreCaller, ok)
  \/ \E outcome \in RestoreOutcomes : RestoreHelperExits(RestoreCaller, outcome)
  \/ \E ok \in BOOLEAN : BackupUp(RestoreCaller, ok)
  \/ ServerStart
  \/ StartLogged
  \/ \E ok \in BOOLEAN : ComposeUp(ok)
  \/ \E res \in {"password", "none", "throws"} : EnvGot(res)

InitRestore ==
  /\ InitRcon /\ ReadyIdle /\ InitIpc /\ InitManagers /\ InitCommands /\ InitStats /\ InitRest
  /\ InitBackup(0, 0, <<[date |-> 1, size |-> BytesPerMB]>>)

SpecRestore == InitRestore /\ [][NextRestore]_vars


\* The methods of RconCommands called with any player name, on a session that one
\* caller connects and whose server answers.
CommandCaller == 1

NextCommands ==
  \/ \E k \in Cmds : \E name \in PlayerNames : \E reason \in Reasons : Kick(k, name, reason)
  \/ \E k \in Cmds : \E name \in PlayerNames : \E reason \in Reasons : Ban(k, name, reason)
  \/ \E k \in Cmds : \E name \in PlayerNames : Pardon(k, name)
  \/ \E k \in Cmds : \E name \in PlayerNames : WhitelistAdd(k, name)
  \/ \E k \in Cmds : \E name \in PlayerNames : WhitelistRemove(k, name)
  \/ \E k \in Cmds : \E name \in PlayerNames : OpAdd(k, name)
  \/ \E k \in Cmds : \E name \in PlayerNames : OpRemove(k, name)
  \/ ConnectWithRetry(CommandCaller, 1)
  \/ ConnectSucceeds(CommandCaller)
  \/ ConnectFails(CommandCaller)
  \/ \E c \in ConnIds : Response(c)

SpecCommands == Init /\ [][NextCommands]_vars

\* getStats() on any answer of container.stats().
InitSample ==
  /\ InitRcon /\ ReadyIdle /\ InitIpc /\ InitManagers /\ InitBackupManager /\ InitCommands
  /\ stats \in RawStats
  /\ cpu = NoCpu
  /\ InitRest

SpecStats == InitSample /\ [][GetStats]_vars

\* The stats handlers beside server:stop: stats:start-polling by two callers,
\* stats:stop-polling, the timers, and every outcome and timing of the polls.
NextPoll ==
  \/ \E q \in PollCalls : StatsStartPolling(q)
  \/ \E q \in PollCalls : \E ok \in BOOLEAN : \E raw \in Answers : FirstPollSettles(q, ok, raw)
  \/ \E t \in 1..MaxTimers : TimerTick(t)
  \/ \E i \in 1..(MaxInflight + MaxPollCalls) : \E ok \in BOOLEAN : \E raw \in Answers :
       TickSettles(i, ok, raw)
  \/ StatsStopPolling
  \/ ServerStop
  \/ StopLogged
  \/ \E ok \in BOOLEAN : ComposeDown(ok)

SpecPoll == Init /\ [][NextPoll]_vars


\* Follow mode: startFollowing() by two callers, console:stop-follow, the stream events,
\* the lines of the container and setBufferSize() with small sizes.
NextFollow ==
  \/ \E p \in FollowCalls : StartFollowing(p)
  \/ \E p \in FollowCalls : \E ok \in BOOLEAN : FollowGotContainer(p, ok)
  \/ \E p \in FollowCalls : \E ok \in BOOLEAN : FollowGotStream(p, ok)
  \/ \E s \in 1..MaxStreams : StreamEnds(s)
  \/ ConsoleStopFollow
  \/ LineArrives
  \/ \E size \in 0..MaxCapacity : SetBufferSize(size)

SpecFollow == Init /\ [][NextFollow]_vars

\* One followed stream on any small stream of bytes, unframed text or frames, delivered
\* in chunks of any sizes, and getSnapshot() on the same bytes.
InitLines ==
  /\ InitRcon /\ ReadyIdle /\ InitIpc /\ InitManagers /\ InitBackupManager /\ InitCommands
  /\ InitStats /\ InitLogs /\ InitParser /\ InitLimiter /\ InitHelper /\ InitEvents
  /\ framed \in BOOLEAN
  /\ pending \in IF framed THEN FramedStreams(MaxFrames) ELSE BytesUpTo(TextBytes, 0, MaxText)
  /\ delivered = <<>>
  /\ lineBuffer = <<>>
  /\ emitted = <<>>
  /\ snapshot = <<>>

NextLines ==
  \/ \E n \in 1..(MaxFrames * (HeaderLength + MaxPayload) + MaxText) : Data(n)
  \/ GetSnapshot

SpecLines == InitLines /\ [][NextLines]_vars

\* _parseLine on every line of the model.
InitParse ==
  /\ InitRcon /\ ReadyIdle /\ InitIpc /\ InitManagers /\ InitBackupManager /\ InitCommands
  /\ InitStats /\ InitLogs /\ InitReader /\ InitLimiter /\ InitHelper /\ InitEvents
  /\ logLine \in LogLines
  /\ parsed = NotParsed

SpecParse == InitParse /\ [][ParseLogLine]_vars

\* console:command requests, valid or not, at any moments of the clock.
NextConsole ==
  \/ ClockAdvances
  \/ \E valid \in BOOLEAN : ConsoleCommand(valid)
  \/ \E connects \in BOOLEAN : ConsoleEnsured(connects)

SpecConsole == Init /\ [][NextConsole]_vars


\* _runHelper by two callers, with every outcome of every Docker call.
NextHelper ==
  \/ \E c \in HelperCalls : RunHelper(c)
  \/ \E c \in HelperCalls : \E ok \in BOOLEAN : ImageEnsured(c, ok)
  \/ \E c \in HelperCalls : \E ok \in BOOLEAN : ContainerCreated(c, ok)
  \/ \E c \in HelperCalls : \E ok \in BOOLEAN : Attached(c, ok)
  \/ \E c \in HelperCalls : \E ok \in BOOLEAN : Started(c, ok)
  \/ \E c \in HelperCalls : \E ok \in BOOLEAN : Waited(c, ok)
  \/ \E c \in HelperCalls : Flushed(c)
  \/ \E c \in HelperCalls : \E ok \in BOOLEAN : ContainerRemoved(c, ok)

SpecHelper == Init /\ [][NextHelper]_vars

\* log() by two callers whose file operations interleave in every way.
NextEvents ==
  \/ \E c \in LogCalls : Log(c)
  \/ \E c \in LogCalls : MkdirDone(c)
  \/ \E c \in LogCalls : ReadDone(c)
  \/ \E c \in LogCalls : WriteDone(c)

SpecEvents == Init /\ [][NextEvents]_vars

\* ------------------------------------------------------------- claims
Transmitted(k) == InQueue(k, sent)

InFlight(k) == cmd[k] = "sent"

\* C1: on one connection at most one request (a queued command or the heartbeat's
\* query) is outstanding at any time.
C1_SingleInFlight == \A c \in ConnIds : Len(wire[c]) <= 1

\* C2: commands are written in submission order, and of two transmitted commands
\* the earlier one has settled before the later one is written.
C2_Fifo ==
  /\ \A i, j \in 1..Len(sent) : i < j => sent[i] < sent[j]
  /\ \A a, b \in Cmds : a < b /\ Transmitted(b) => ~InQueue(a, queue) /\ ~InFlight(a)

\* C3: once the reconnect budget is exhausted, the commands that were queued have
\* been rejected: none is still waiting in the queue.
C3_QueueSettledAfterExhaustion == task[AutoTask].pc = "exhausted" => Len(queue) = 0

DisconnectReturns ==
  (Disconnect \/ \E c \in ConnIds : ConnectionEnds(c)) /\ dpc' = "idle"
    /\ (dpc = "ending" \/ Disconnect)

\* C4: when disconnect() returns the heartbeat timer is stopped, the connection it
\* held is closed, and no send() promise that was queued is left unsettled.
C4_DisconnectSettlesQueue ==
  [][DisconnectReturns =>
       /\ ~heartbeat'
       /\ client' = 0
       /\ client # 0 => client \notin conns'
       /\ \A k \in Cmds : cmd[k] = "queued" => cmd'[k] \in {"resolved", "rejNC", "rejErr"}]_vars

\* C5: send() on a session that is down and not reconnecting rejects with the
\* not-connected error and never transmits; on a session that is reconnecting the
\* command stays queued.
C5_SendWhileDown ==
  [][\A k \in Cmds : Send(k) /\ ~connected =>
       IF reconnecting
       THEN cmd'[k] = "queued" /\ InQueue(k, queue')
       ELSE cmd'[k] = "rejNC" /\ ~InQueue(k, sent')]_vars

AutoLeft == Busy(task[AutoTask]) /\ ~Busy(task'[AutoTask])

CallerLeft(t) == t # AutoTask /\ task'[t] # task[t] /\ ~Busy(task'[t])

\* C7: connectWithRetry(maxAttempts) calls connect() at most maxAttempts times, throws
\* exactly when the last attempt of its budget failed, and otherwise leaves with the
\* session connected.
C7_ConnectWithRetry ==
  /\ [](\A t \in TaskIds : task[t].attempt <= task[t].max)
  /\ [][\A t \in TaskIds : CallerLeft(t) =>
          IF task'[t].pc = "exhausted"
          THEN task[t].pc = "connecting" /\ task[t].attempt = task[t].max /\ conns' = conns
          ELSE connected']_vars

\* C8 as claimed: waitForReady returns ready only if container-running, marker-observed
\* and port-open all held at one moment.
C8_ReadyOnlyIfSimultaneous == wpc = "ready" => everAll

\* C8 as the code has it: waitForReady returns ready only if, within one poll tick,
\* each of the three conditions held at the moment its own probe looked at it.
C8_ReadyOnlyIfEachProbed == wpc = "ready" => held = {"container", "log", "port"}

C8_Witness == wpc = "ready" /\ ~everAll

Finished == wpc \in {"ready", "timeout"}

\* C9: the timeout error comes only at or after timeoutMs; a workload that never logs
\* the marker never gets ready and does get the timeout error; every call ends.
C9_Timeout ==
  /\ [](wpc = "timeout" => now - startTime >= timeoutMs)
  /\ [](neverDone => wpc # "ready")
  /\ [](wpc # "idle" => <>Finished)
  /\ [](wpc # "idle" /\ neverDone => <>(wpc = "timeout"))

C9_Witness == wpc = "timeout" /\ neverDone /\ timeoutMs > 0 /\ now - startTime >= timeoutMs

\* C10: from Stopped, server:start sets the observed state to Starting; when the
\* waitForReady of server:wait-ready has resolved and no server:stop came since the
\* start, the handler sets it to Running; server:stop while Running sets it to Stopping
\* and, when compose.down() has brought the container down, to Stopped.
C10_Lifecycle ==
  /\ [][ServerStart /\ serverState = "stopped" => serverState' = "starting"]_vars
  /\ [][(hWait \in {"waitForReady", "connect"} /\ hWait' = "log" /\ ~stopSince')
            => serverState' = "running"]_vars
  /\ [][ServerStop /\ serverState = "running" => serverState' = "stopping"]_vars
  /\ [][ComposeDown(TRUE) => serverState' = "stopped" /\ ~envRunning']_vars

C10_Witness ==
  /\ serverState = "stopped" /\ stopSince /\ ~envRunning
  /\ hStart = "idle" /\ hStop = "idle" /\ hWait = "idle"
  /\ ~rconClient /\ nconn = 1 /\ ~connected

\* C11: from the moment server:stop has completed, and until following (polling) is
\* started again, log following is inactive and no stream is held or open, telemetry
\* polling is inactive and no timer is running, so that nothing is left to deliver log
\* entries or samples; and at that moment the session is disconnected and discarded.
C11_StopTearsDown ==
  /\ [](logPhase = "quiet" => ~following /\ stream = 0 /\ streams = {})
  /\ [](statPhase = "quiet" => ~polling /\ pollInterval = 0 /\ timers = {})
  /\ [][ComposeDown(TRUE) /\ stopSince'
          => ~rconClient' /\ ~connected' /\ conns' = {} /\ ~heartbeat']_vars

\* The calls of createBackup() and restoreBackup() that have not ended.
Running == {c \in BackupCalls : bcall[c].pc \notin Ended}

\* C12: at most one backup or restore operation is in flight; a createBackup or
\* restoreBackup call made while another has not finished is rejected, and its step
\* neither stops the workload nor launches a worker nor touches the volumes.
C12_OneInFlight ==
  /\ [](Cardinality(Running) <= 1)
  /\ [][\A c \in BackupCalls :
          (/\ bcall[c].pc \in Ended
           /\ bcall'[c] # bcall[c]
           /\ Running \ {c} # {})
            => /\ bcall'[c].pc = "rejected"
               /\ UNCHANGED <<envRunning, world, worldOld, volume, backupRunning>>
               /\ \A d \in BackupCalls \ {c} : bcall'[d] = bcall[d]]_vars

C12_Witness ==
  \E c, d \in BackupCalls : bcall[c].pc = "rejected" /\ bcall[d].pc = "helper"

\* The names in a sequence of names, and those of a listing.
Range(seq) == {seq[i] : i \in 1..Len(seq)}
Listed(lst) == {lst[i].name : i \in 1..Len(lst)}
DateOf(lst, n) == (CHOOSE b \in Range(lst) : b.name = n).date

VolumeSize == SumSizes(Ls(volume, DOMAIN volume))
Removed == DOMAIN volume \ DOMAIN volume'

Returned(kind) == {c \in BackupCalls : bcall[c].pc = "returned" /\ bcall[c].kind = kind}

\* C15: createBackup() emits 'complete' and returns only if its worker has made the
\* archive: when the worker has exited with a failure of tar, and no archive is there,
\* the call fails.
C15_ArchiveProduced == \A c \in Returned("create") : bcall[c].out = "archived"

\* C16: restoreBackup() emits 'complete' and returns only if its worker has extracted
\* the whole archive: when the extraction was incomplete, the call fails.
C16_RestoreComplete == \A c \in Returned("restore") : bcall[c].out = "restored"

\* What the data volume holds: the state in world and the state in world.old.
Kept == {world, worldOld} \ {0}

\* C17: no step of a restore deletes a state that the data volume holds, and the worker
\* of a restore leaves the state that was live before it in world.old.
C17_StatePreserved ==
  /\ [][Kept \subseteq {world', worldOld'}]_vars
  /\ [][world' # world /\ world # 0 => worldOld' = world]_vars

\* C18: while the worker of a restore runs, the workload is not running.
C18_ExclusiveAccess ==
  \A c \in BackupCalls :
    bcall[c].kind = "restore" /\ bcall[c].pc = "helper" => ~envRunning

\* The allowed form of a player name: 3 to 16 characters, each a letter, a digit or
\* the underscore.
NameChars == {"a", "_"}
ValidName(name) == Len(name) >= 3 /\ Len(name) <= 16 /\ \A i \in 1..Len(name) : name[i] \in NameChars

\* C19: a command string that kick, ban, pardon, whitelist add/remove, op or deop has
\* passed to send() embeds a player name of the allowed form.
C19_ValidNames == passed # <<>> => ValidName(player)

\* v, in tenths, is x = num / den rounded to one decimal: v - 1/2 <= 10 x < v + 1/2.
IsRounded(v, num, den) ==
  (2 * v - 1) * den <= 2 * 10 * num /\ 2 * 10 * num < (2 * v + 1) * den

\* A sample has been computed from positive deltas and a positive online_cpus.
Sampled ==
  cpu.cores # 0 /\ CpuDelta(stats) > 0 /\ SystemDelta(stats) > 0 /\ stats.online_cpus > 0

C21_FirstSampleZero == lastSample.delivered /\ lastSample.first => lastSample.percent = 0

\* C26: no sample is delivered once stopPolling has returned: a sample that the
\* listeners receive is emitted while the manager is polling.
C26_NoSampleAfterStop == lastSample.delivered => lastSample.live

\* C27: samples are delivered in the order their polls began: no sample is delivered
\* after the sample of a poll begun later.
C27_GenerationOrder == lastSample.delivered => ~lastSample.overtaken

\* The last n entries of s, all of s if it has fewer.
LastN(s, n) == SubSeq(s, Len(s) - (IF n < Len(s) THEN n ELSE Len(s)) + 1, Len(s))

\* C22: the buffer never holds more than maxBufferSize entries and holds the entries
\* appended last, in the order they arrived; an append keeps the newest maxBufferSize
\* entries of the buffer and the entries added, and setBufferSize keeps the newest size
\* entries.
C22_BoundedFifo ==
  /\ [](Len(buffer) <= maxBufferSize /\ buffer = LastN(appended, Len(buffer)))
  /\ [][/\ appended' # appended =>
             buffer' = LastN(buffer \o SubSeq(appended', Len(appended) + 1, Len(appended')),
                             maxBufferSize)
        /\ maxBufferSize' # maxBufferSize => buffer' = LastN(buffer, maxBufferSize')]_vars

\* Three entries were appended into a buffer of two, which holds the last two.
C22_Witness ==
  /\ maxBufferSize = 2
  /\ Len(appended) = 3
  /\ buffer = SubSeq(appended, 2, 3)

\* C24: whatever startFollowing calls were made, at most one stream is open, and every
\* line has been buffered and emitted at most once.
C24_OneSubscription ==
  /\ Cardinality(streams) <= 1
  /\ \A n \in 1..MaxLines : Cardinality({i \in 1..Len(appended) : appended[i] = n}) <= 1

\* C25: once stopFollowing has run and until startFollowing is called again, no stream
\* is held or open, follow mode is inactive, and no entry is buffered or emitted.
C25_Released ==
  /\ [](logPhase = "quiet" => ~following /\ stream = 0 /\ streams = {})
  /\ [][logPhase = "quiet" => appended' = appended]_vars

\* C23: on an unframed stream the entries emitted, and the fragment held, are those of
\* the bytes delivered so far taken as one chunk, however they were split into chunks.
C23_ChunkingIndependent ==
  ~framed => /\ emitted = OnData(<<>>, delivered).entries
             /\ lineBuffer = OnData(<<>>, delivered).lineBuffer

\* The characters that the bytes of a frame header decode to: the stream type, the
\* reserved bytes and the size bytes.
HeaderChars == 0..MaxPayload \cup {1, 2}

\* C28: on a multiplexed stream no entry, emitted in follow mode or returned by
\* getSnapshot(), holds a character of a frame header.
C28_HeadersStripped ==
  framed => \A e \in Range(emitted) \cup Range(snapshot) :
              \A i \in 1..Len(e) : e[i] \notin HeaderChars

\* C29: the severity parsed is the severity word of the line's bracketed prefix, INFO
\* when the prefix carries none; a prefix with a thread label and a severity yields the
\* label as thread.
C29_Severity ==
  parsed # NotParsed =>
    /\ parsed.level = IF logLine.level = "" THEN "INFO" ELSE ToUpperCase(logLine.level)
    /\ logLine.thread # "" /\ logLine.level # "" => parsed.thread = <<logLine.thread>>

\* The requests that passed the limiter from the moment from on, for less than 1000 ms.
PassedWithin(from) ==
  Cardinality({i \in 1..Len(passes) : passes[i] >= from /\ passes[i] < from + WindowMs})

\* C30: in no window of 1000 ms more than 5 requests have passed the limiter, and only
\* requests that passed have got on to ensureRcon() and rconClient.send().
C30_RateLimited ==
  /\ \A from \in 0..(MaxClockSteps * ClockStep) : PassedWithin(from) <= MaxPerSecond
  /\ awaiting + forwarded <= Len(passes)

\* Five requests passed within a window, and a sixth was refused.
C30_Witness ==
  /\ refused
  /\ PassedWithin(clock - ClockStep) = MaxPerSecond
  /\ forwarded > 0

\* C31: the in-flight flag is set exactly as long as the createBackup() or
\* restoreBackup() that set it has not finished, by returning or by throwing; a rejected
\* call does not own it.
C31_FlagCleared == backupRunning <=> \E c \in BackupCalls : bcall[c].pc \notin Ended

\* One call was rejected while the other ran, and the other has thrown since: the flag
\* is clear.
C31_Witness ==
  /\ ~backupRunning
  /\ \E c, d \in BackupCalls : bcall[c].pc = "threw" /\ bcall[d].pc = "rejected"

\* A createBackup() that has stopped the running workload: compose.down() has succeeded.
Quiesced(c) ==
  /\ bcall[c].kind = "create"
  /\ bcall[c].stopServer
  /\ bcall[c].wasRunning
  /\ bcall[c].pc \in {"helper", "up", "retention"}

\* C32: when a createBackup() that stopped the workload finishes, by returning or by
\* throwing, the workload is running.
C32_Resumed ==
  [][\A c \in BackupCalls : Quiesced(c) /\ bcall'[c].pc \in Ended => envRunning']_vars

\* C33: when _runHelper has returned or thrown, the worker container that it created
\* no longer exists.
C33_Reclaimed ==
  \A c \in HelperCalls :
    hcall[c].pc \in HelperEnded /\ hcall[c].container # 0 => hcall[c].container \notin workers

\* C33, as the code has it: when _runHelper has returned or thrown, the removal of the
\* container that it created was requested and has settled, and the container no
\* longer exists unless Docker rejected the removal.
C33_RemovalSettled ==
  \A c \in HelperCalls :
    hcall[c].pc \in HelperEnded /\ hcall[c].container # 0 =>
      /\ hcall[c].removal # "none"
      /\ hcall[c].removal = "removed" => hcall[c].container \notin workers

C33_Witness ==
  \E c, d \in HelperCalls :
    /\ hcall[c].pc = "threw" /\ hcall[c].removal = "removed"
    /\ hcall[c].container \notin workers
    /\ hcall[d].pc = "returned" /\ hcall[d].removal = "rejected"
    /\ hcall[d].container \in workers

\* C39: an event whose log() call has returned is in the file as long as fewer than
\* maxEntries newer events were logged, and the file never holds more than maxEntries.
C39_Kept ==
  /\ Len(logFile) <= MaxEntries
  /\ \A e \in returned :
       logged - e < MaxEntries => \E i \in 1..Len(logFile) : logFile[i] = e

\* C34: when disconnect() returns, the session is disconnected and at rest: not
\* connected, not reconnecting, no reconnect attempt of _autoReconnect under way and
\* no heartbeat timer.
C34_DisconnectIsFinal ==
  [][DisconnectReturns =>
       /\ ~connected'
       /\ ~reconnecting'
       /\ ~Busy(task'[AutoTask])
       /\ ~heartbeat']_vars

\* C35: the session holds at most one open connection, and every open connection that
\* connect() opened is the one that this.client refers to.
C35_OneConnection ==
  /\ Cardinality(conns) <= 1
  /\ \A c \in conns : c = client

\* C36: when the handlers replace their session object by a new one, or drop it, the
\* session they held is disconnected: not connected, no connection open, no
\* heartbeat timer.
C36_DisconnectedFirst ==
  [][rconClient /\ (EnvGot("password") \/ ~rconClient') =>
       /\ ~connected
       /\ conns = {}
       /\ ~heartbeat]_vars

\* C37: once server:stop has set the observed state to stopping, no step of a
\* server:wait-ready that watches the container which is being stopped makes it running:
\* from stopping the observed state does not become running.
C37_StoppingNotRunning ==
  [][serverState = "stopping" /\ envRunning /\ hWait' # hWait =>
       serverState' # "running"]_vars

\* C38: at most one polling timer runs at any time, and none runs while polling is
\* stopped.
C38_OneTimer ==
  /\ Cardinality(timers) <= 1
  /\ ~polling => timers = {}

====
